---------------------------- MODULE Spec2Model ----------------------------
(***************************************************************************)
(* Model of the catalog query engine and the stream resolution pipeline    *)
(* of OMG-Premium-TV (src/handlers.js, src/index.js).                      *)
(*                                                                         *)
(* Stream descriptors are records [base, src, path]:                       *)
(*   base = "url", path = <<>>   the original descriptor (or the stream    *)
(*                               details) of declared URL number src       *)
(*   base = "res", path = <<>>   resolver candidate number src             *)
(*   path = <<v1, ..., vd>>      variant vd returned by the proxy for the  *)
(*                               descriptor with path <<v1, ..., v(d-1)>>  *)
(***************************************************************************)
EXTENDS Integers, Sequences, FiniteSets, TLC

\* Largest number of declared URLs of the cached channel.
MaxUrls == 2
\* Largest number of candidates the resolver returns.
MaxResolved == 2
\* Largest number of variants the proxy returns for one input.
MaxVariants == 2
\* Largest index the loop of handlers.js:324 is followed to.
MaxLoop == 5

VARIABLES
    spc,        \* position of the streamHandler call
    scfg,       \* userConfig of the streamHandler call
    found,      \* whether CacheManager.getChannel returned a channel
    nUrls,      \* number of entries of channel.streamInfo.urls
    resolved0,  \* what getResolvedStreams returned, as it was returned
    streams,    \* contents of the array the variable `streams` refers to
    aliased,    \* `streams` and `resolvedStreams` are the same array
    idx,        \* position of the running for-of loop (1-based)
    from,       \* call site of the running processOriginalStreams
    memo,       \* what the proxy answered, per class of input
    proxyLog,   \* inputs getProxyStreams was called with, in call order
    threw,      \* collaborators that raised an exception in this call
    result,     \* the streams list the call returned
    sout,       \* how the streamHandler call ended
    sregen,     \* the request names the playlist regeneration channel
    scalls,     \* collaborators the call called, in call order (no proxy)
    sscript,    \* what PythonRunner.executeScript reported
    schan,      \* id of the channel CacheManager.getChannel returned
    rmeta,      \* the meta of each descriptor of the returned list
    lastFilter, \* the filter slot of the cache manager: kind and value
    cpc,        \* per client: position of its catalogHandler call
    cepg,       \* per client: the call awaits EPGManager.initializeEPG
    cout,       \* per client: how the call ended
    cextra,     \* per client: the `extra` the call was made with
    cprev,      \* per client: the filter slot when line 73 was reached
    cafter,     \* per client: the filter slot when line 93 was reached
    cmetas,     \* per client: the ids of the returned metas, in order
    cgenres,    \* per client: the returned genres
    cstart,     \* per client: the start index of the page (line 93)
    cthrew,     \* per client: collaborators that raised in the call
    writer,     \* the client whose call last set or cleared the filter slot
    cown,       \* per client: the filter its own calls last left in the slot
    ccalls,     \* per client: the collaborators its call invoked, in order
    ppc,        \* paging alone: whether a page was computed
    plen,       \* paging alone: length of the filtered sequence
    pskip,      \* paging alone: the skip the page was asked with
    ppage,      \* paging alone: the ids of the metas of the page
    mpc,        \* meta alone: which handler built the meta, if any
    mch,        \* meta alone: the channel
    mcfg,       \* meta alone: userConfig.epg_enabled
    mepg,       \* meta alone: what the EPG manager holds
    mmeta,      \* meta alone: the meta built
    mcalls,     \* meta alone: the EPG lookups made
    npc,        \* name alone: whether a name was cleaned
    nname,      \* name alone: the channel name
    nclean,     \* name alone: cleanNameForImage(name)
    ntwice,     \* name alone: cleanNameForImage(cleanNameForImage(name))
    nmain,      \* name alone: `cleaned` when line 33 was reached
    hpc,        \* headers alone: whether the original details were built
    hcache,     \* headers alone: stream.headers of each declared URL, cached
    hbefore,    \* headers alone: hcache when the stream request came
    hdetails,   \* headers alone: headers of each original stream detail
    epc,        \* extra alone: whether an extra string was parsed
    einput,     \* extra alone: the extra string of the request path
    eresult     \* extra alone: what safeParseExtra returned

svars == <<spc, scfg, found, nUrls, resolved0, streams, aliased, idx, from,
           memo, proxyLog, threw, result, sout, sregen, scalls, sscript,
           schan, rmeta>>

cvars == <<lastFilter, cpc, cepg, cout, cextra, cprev, cafter, cmetas,
           cgenres, cstart, cthrew, writer, cown, ccalls>>

\* The paging of lines 93-111 applied to a filtered sequence of any length.
pvars == <<ppc, plen, pskip, ppage>>

\* The variables of the functions applied on their own.
\* The meta of one channel, as lines 102-141 and 353-382 build it.
mvars == <<mpc, mch, mcfg, mepg, mmeta, mcalls>>

\* cleanNameForImage applied to a name, and to its own result.
nvars == <<npc, nname, nclean, ntwice, nmain>>

\* Lines 253-271 applied to the declared URLs of the cached channel.
hvars == <<hpc, hcache, hbefore, hdetails>>

\* safeParseExtra applied to an extra string.
evars == <<epc, einput, eresult>>

gvars == <<hvars, evars>>

fvars == <<pvars, mvars, nvars, gvars>>

vars == <<svars, cvars, fvars>>

-----------------------------------------------------------------------------
(* Configurations and descriptors *)

StreamConfigs ==
    [m3u : BOOLEAN, resolver : BOOLEAN, force : BOOLEAN,
     proxy : BOOLEAN, proxy_pwd : BOOLEAN]

NoConfig ==
    [m3u |-> FALSE, resolver |-> FALSE, force |-> FALSE,
     proxy |-> FALSE, proxy_pwd |-> FALSE]

\* userConfig.proxy && userConfig.proxy_pwd
ProxyConfigured(c) == c.proxy /\ c.proxy_pwd

\* An entry of originalStreamDetails / the streamMeta built from it.
OriginalStream(u) == [base |-> "url", src |-> u, path |-> <<>>]

\* The array originalStreamDetails built from channel.streamInfo.urls.
originalStreamDetails == [u \in 1..nUrls |-> OriginalStream(u)]

\* Candidate number j of the resolver's answer.
ResolvedStream(j) == [base |-> "res", src |-> j, path |-> <<>>]

\* The variants the proxy returns for input x when it returns n of them.
ProxyVariants(x, n) ==
    [v \in 1..n |-> [base |-> x.base, src |-> x.src, path |-> Append(x.path, v)]]

\* The class of a proxy input: the proxy answers alike for inputs alike.
ProxyClass(x) == IF x.path = <<>> THEN <<x.base, x.src>> ELSE <<"px", 0>>

ProxyClasses ==
    {<<"url", u>> : u \in 1..MaxUrls} \cup {<<"res", j>> : j \in 1..MaxResolved}
        \cup {<<"px", 0>>}

ProxyOutcomes == [throws : BOOLEAN, n : 0..MaxVariants]

NoAnswer == [set |-> FALSE, throws |-> FALSE, n |-> 0]

\* getProxyStreams(x, userConfig) answers o: a list of o.n variants, or an
\* exception.  The same input class is answered the same way throughout one
\* streamHandler call; the proxied variants form one class.
getProxyStreams(x, o) ==
    /\ o \in ProxyOutcomes
    /\ o.throws => o.n = 0
    /\ memo[ProxyClass(x)].set =>
          /\ o.throws = memo[ProxyClass(x)].throws
          /\ o.n = memo[ProxyClass(x)].n
    /\ memo' = [memo EXCEPT ![ProxyClass(x)] =
                    [set |-> TRUE, throws |-> o.throws, n |-> o.n]]
    /\ proxyLog' = Append(proxyLog, x)

NoProxyCall == UNCHANGED <<memo, proxyLog>>

-----------------------------------------------------------------------------
(* Control transfers of streamHandler *)

Goto(pc, s, al, i, f) ==
    /\ spc' = pc
    /\ streams' = s
    /\ aliased' = al
    /\ idx' = i
    /\ from' = f
    /\ UNCHANGED <<result, sout, rmeta>>

\* Ids of the cached channels a stream request asks for.
ChannelIds == {"tv1", "tv2"}

\* Lines 357-373: the meta of the channel with the given id.
MetaOf(id) == [id |-> id, type |-> "tv"]

\* A descriptor without meta.
Metaless == [id |-> "", type |-> ""]

\* Only the first descriptor gets the meta.
AttachMeta_FirstOnly(ss, meta) ==
    [n \in 1..Len(ss) |-> IF n = 1 THEN meta ELSE Metaless]

\* Lines 384-386: streams.forEach(stream => { stream.meta = meta; })
AttachMeta(ss, meta) == [n \in 1..Len(ss) |-> meta]

\* return { streams: r }, the descriptors having the metas ms.
Answer(r, ms) ==
    /\ spc' = "done"
    /\ sout' = "returned"
    /\ result' = r
    /\ rmeta' = ms
    /\ streams' = <<>>
    /\ aliased' = FALSE
    /\ idx' = 0
    /\ from' = "none"

\* return { streams: r }
Return(r) ==
    /\ spc' = "done"
    /\ sout' = "returned"
    /\ result' = r
    /\ rmeta' = [n \in 1..Len(r) |-> Metaless]
    /\ streams' = <<>>
    /\ aliased' = FALSE
    /\ idx' = 0
    /\ from' = "none"

\* streams = <value returned by processOriginalStreams>; go on at line 352.
ReturnOriginal(s) == Goto("meta", s, FALSE, 0, from)

\* With force_proxy and no credentials the originals are returned unproxied.
processOriginalStreams_KeepsOriginals(c, f) ==
    IF c.force /\ ProxyConfigured(c)
    THEN Goto("origForce", <<>>, FALSE, 1, f)
    ELSE Goto("origPlain", <<>>, FALSE, 1, f)

\* Entry of processOriginalStreams (lines 396-406) under userConfig c, called
\* from the site f: the loop it runs, or its return when it runs none.
processOriginalStreams(c, f) ==
    IF c.force
    THEN IF ProxyConfigured(c)
         THEN Goto("origForce", <<>>, FALSE, 1, f)
         ELSE Goto("meta", <<>>, FALSE, 0, f)
    ELSE Goto("origPlain", <<>>, FALSE, 1, f)

\* The resolver's failure ends the call with no stream.
ResolverCatch_Drop == Return(<<>>)

\* catch (resolverError) { streams = await processOriginalStreams(...) }
ResolverCatch == processOriginalStreams(scfg, "catch")

\* else-branch of `resolvedStreams && resolvedStreams.length > 0`
ResolverEmpty == processOriginalStreams(scfg, "try")

\* The forced loop starts from the resolver's list instead of an empty one.
ForceProxyStart_KeepsResolved(r) == Goto("forceLoop", r, FALSE, 1, "none")

\* Lines 291-296: force_proxy with credentials; streams is still the fresh
\* array of line 253 when the loop over resolvedStreams starts.
ForceProxyStart(r) == Goto("forceLoop", <<>>, FALSE, 1, "none")

\* force_proxy without credentials yields nothing, as in Branch B.
ForceNoCredentials_Empty(r) == Goto("meta", <<>>, FALSE, 0, "none")

\* Lines 311-314: force_proxy without credentials; streams = resolvedStreams.
ForceNoCredentials(r) == Goto("meta", r, TRUE, 0, "none")

\* Lines 316-335: no force_proxy; streams = resolvedStreams makes the two
\* names denote one array, which the loop of line 324 iterates and extends.
AppendStart(r) ==
    IF ProxyConfigured(scfg)
    THEN Goto("appendLoop", r, TRUE, 1, "none")
    ELSE Goto("meta", r, TRUE, 0, "none")

\* The variants are pushed before the original descriptor.
PushOriginalAndVariants_Swapped(s, u, vs) == (s \o vs) \o <<OriginalStream(u)>>

\* Lines 421 and 426: streams.push(streamMeta); streams.push(...proxyStreams)
PushOriginalAndVariants(s, u, vs) == Append(s, OriginalStream(u)) \o vs

\* The exception leaves streamHandler: the promise it returned is rejected.
Reject ==
    /\ spc' = "done"
    /\ sout' = "rejected"
    /\ result' = <<>>
    /\ rmeta' = <<>>
    /\ streams' = <<>>
    /\ aliased' = FALSE
    /\ idx' = 0
    /\ from' = "none"

\* The catch of line 389 lets the exception through.
OuterCatch_Rethrows == Reject

\* Lines 389-392: catch (error) { return { streams: [] } }
OuterCatch == Return(<<>>)

\* The miss is reported as an error.
ChannelMiss_Rejects == Reject

\* Lines 248-251: the cache holds no channel of the id.
ChannelMiss == Return(<<>>)

\* The descriptors of lines 220-229 and 232-241.
RegenDone == [base |-> "Completato", src |-> 0, path |-> <<>>]
RegenError == [base |-> "Errore", src |-> 0, path |-> <<>>]

\* An exception inside processOriginalStreams reaches the catch of line 342
\* when the call stands inside that try, the outer catch otherwise.
ThrowInOriginal == IF from = "try" THEN ResolverCatch ELSE OuterCatch

-----------------------------------------------------------------------------
(* streamHandler, handlers.js:190-393 *)

\* Lines 190-274 and 347-350: the playlist check, the configuration update,
\* the channel lookup, and the choice between the resolver and the standard
\* processing.  c is userConfig, updateThrows whether updateConfig raises,
\* hit whether the cache holds the channel, n its number of declared URLs,
\* id the id of the channel when the cache holds it.
StreamRequest(c, updateThrows, hit, n, id) ==
    /\ UNCHANGED <<cvars, fvars>>
    /\ spc = "idle"
    /\ scfg' = c
    /\ schan' = IF c.m3u /\ ~updateThrows /\ hit THEN id ELSE ""
    /\ sregen' = FALSE
    /\ sscript' = "none"
    /\ scalls' = IF ~c.m3u THEN <<>>
                 ELSE IF updateThrows THEN <<"updateConfig">>
                 ELSE IF hit /\ c.resolver
                 THEN <<"updateConfig", "getChannel", "getResolvedStreams">>
                 ELSE <<"updateConfig", "getChannel">>
    /\ resolved0' = <<>>
    /\ NoProxyCall
    /\ IF ~c.m3u
       THEN /\ found' = FALSE /\ nUrls' = 0 /\ threw' = {}
            /\ Return(<<>>)
       ELSE IF updateThrows
       THEN /\ found' = FALSE /\ nUrls' = 0 /\ threw' = {"updateConfig"}
            /\ OuterCatch
       ELSE IF ~hit
       THEN /\ found' = FALSE /\ nUrls' = 0 /\ threw' = {}
            /\ ChannelMiss
       ELSE /\ found' = TRUE /\ nUrls' = n /\ threw' = {}
            /\ IF c.resolver
               THEN Goto("resolver", <<>>, FALSE, 0, "none")
               ELSE processOriginalStreams(c, "else")

\* Lines 190-251 when CacheManager.getChannel raises.
ChannelLookupThrows(c) ==
    /\ UNCHANGED <<cvars, fvars>>
    /\ spc = "idle"
    /\ c.m3u
    /\ scfg' = c
    /\ sregen' = FALSE
    /\ sscript' = "none"
    /\ scalls' = <<"updateConfig", "getChannel">>
    /\ schan' = ""
    /\ found' = FALSE /\ nUrls' = 0 /\ resolved0' = <<>>
    /\ threw' = {"getChannel"}
    /\ NoProxyCall
    /\ OuterCatch

\* Lines 190-207 for the channel id 'rigeneraplaylistpython': the playlist
\* check, the configuration update and the call of executeScript.
RegenerateRequest(c, updateThrows) ==
    /\ UNCHANGED <<cvars, fvars>>
    /\ spc = "idle"
    /\ scfg' = c
    /\ sregen' = TRUE
    /\ schan' = ""
    /\ sscript' = "none"
    /\ found' = FALSE /\ nUrls' = 0 /\ resolved0' = <<>>
    /\ NoProxyCall
    /\ IF ~c.m3u
       THEN /\ scalls' = <<>> /\ threw' = {}
            /\ Return(<<>>)
       ELSE IF updateThrows
       THEN /\ scalls' = <<"updateConfig">> /\ threw' = {"updateConfig"}
            /\ OuterCatch
       ELSE /\ scalls' = <<"updateConfig", "executeScript">> /\ threw' = {}
            /\ Goto("script", <<>>, FALSE, 0, "none")

\* Lines 207-243: executeScript settled: with a truthy value (rebuildCache
\* is called), with a falsy one, or with an exception.
ScriptSettles(outcome) ==
    /\ UNCHANGED <<cvars, fvars>>
    /\ spc = "script"
    /\ sscript' = outcome
    /\ NoProxyCall
    /\ UNCHANGED <<scfg, found, nUrls, resolved0, sregen, schan>>
    /\ CASE outcome = "true" ->
              /\ scalls' = Append(scalls, "rebuildCache")
              /\ UNCHANGED threw
              /\ Goto("rebuild", <<>>, FALSE, 0, "none")
         [] outcome = "false" ->
              /\ UNCHANGED <<scalls, threw>>
              /\ Return(<<RegenError>>)
         [] outcome = "threw" ->
              /\ UNCHANGED scalls
              /\ threw' = threw \cup {"executeScript"}
              /\ OuterCatch

\* Lines 215-230: rebuildCache settled.
RebuildSettles(throws) ==
    /\ UNCHANGED <<cvars, fvars>>
    /\ spc = "rebuild"
    /\ NoProxyCall
    /\ UNCHANGED <<scfg, found, nUrls, resolved0, sregen, scalls, sscript,
                   schan>>
    /\ IF throws
       THEN /\ threw' = threw \cup {"rebuildCache"}
            /\ OuterCatch
       ELSE /\ UNCHANGED threw
            /\ Return(<<RegenDone>>)

\* Lines 286-341 up to the first proxy call: getResolvedStreams returned k
\* candidates (k = 0: none, or no array at all).
ResolverReturns(k) ==
    /\ UNCHANGED <<cvars, fvars>>
    /\ UNCHANGED <<sregen, scalls, sscript, schan>>
    /\ spc = "resolver"
    /\ resolved0' = [j \in 1..k |-> ResolvedStream(j)]
    /\ NoProxyCall
    /\ UNCHANGED <<scfg, found, nUrls, threw>>
    /\ IF k > 0
       THEN IF scfg.force
            THEN IF ProxyConfigured(scfg)
                 THEN ForceProxyStart(resolved0')
                 ELSE ForceNoCredentials(resolved0')
            ELSE AppendStart(resolved0')
       ELSE ResolverEmpty

\* Lines 286 and 342-346: getResolvedStreams raised.
ResolverThrows ==
    /\ UNCHANGED <<cvars, fvars>>
    /\ UNCHANGED <<sregen, scalls, sscript, schan>>
    /\ spc = "resolver"
    /\ threw' = threw \cup {"resolver"}
    /\ NoProxyCall
    /\ UNCHANGED <<scfg, found, nUrls, resolved0>>
    /\ ResolverCatch

\* The array the loops of lines 296 and 324 iterate: resolvedStreams.
resolvedStreams == IF aliased THEN streams ELSE resolved0

\* Lines 296-310: one iteration of the force_proxy loop over resolvedStreams
\* (streams is a fresh array here), or its end.
ForceLoopStep ==
    /\ UNCHANGED <<cvars, fvars>>
    /\ UNCHANGED <<sregen, scalls, sscript, schan>>
    /\ spc = "forceLoop"
    /\ UNCHANGED <<scfg, found, nUrls, resolved0>>
    /\ IF idx > Len(resolvedStreams)
       THEN /\ NoProxyCall /\ UNCHANGED threw
            /\ Goto("meta", streams, FALSE, 0, from)
       ELSE \E o \in ProxyOutcomes :
              /\ getProxyStreams(resolvedStreams[idx], o)
              /\ IF o.throws
                 THEN /\ threw' = threw \cup {"proxy"}
                      /\ ResolverCatch
                 ELSE /\ UNCHANGED threw
                      /\ Goto("forceLoop",
                              streams \o ProxyVariants(resolvedStreams[idx], o.n),
                              FALSE, idx + 1, from)

\* Lines 324-334: one iteration of the loop over resolvedStreams that pushes
\* onto streams, or its end.  Both names denote the same array (line 318), so
\* the iterator also reaches the elements the loop itself pushed.
AppendLoopStep ==
    /\ UNCHANGED <<cvars, fvars>>
    /\ UNCHANGED <<sregen, scalls, sscript, schan>>
    /\ spc = "appendLoop"
    /\ idx <= MaxLoop
    /\ UNCHANGED <<scfg, found, nUrls, resolved0>>
    /\ IF idx > Len(resolvedStreams)
       THEN /\ NoProxyCall /\ UNCHANGED threw
            /\ Goto("meta", streams, aliased, 0, from)
       ELSE \E o \in ProxyOutcomes :
              /\ getProxyStreams(resolvedStreams[idx], o)
              /\ IF o.throws
                 THEN /\ threw' = threw \cup {"proxy"}
                      /\ ResolverCatch
                 ELSE /\ UNCHANGED threw
                      /\ Goto("appendLoop",
                              streams \o ProxyVariants(resolvedStreams[idx], o.n),
                              aliased, idx + 1, from)

\* Lines 399-405: one iteration of the force_proxy loop of
\* processOriginalStreams, or its end and the return to the caller.
OrigForceStep ==
    /\ UNCHANGED <<cvars, fvars>>
    /\ UNCHANGED <<sregen, scalls, sscript, schan>>
    /\ spc = "origForce"
    /\ UNCHANGED <<scfg, found, nUrls, resolved0>>
    /\ IF idx > Len(originalStreamDetails)
       THEN /\ NoProxyCall /\ UNCHANGED threw
            /\ ReturnOriginal(streams)
       ELSE \E o \in ProxyOutcomes :
              /\ getProxyStreams(originalStreamDetails[idx], o)
              /\ IF o.throws
                 THEN /\ threw' = threw \cup {"proxy"}
                      /\ ThrowInOriginal
                 ELSE /\ UNCHANGED threw
                      /\ Goto("origForce",
                              streams \o ProxyVariants(originalStreamDetails[idx], o.n),
                              FALSE, idx + 1, from)

\* Lines 406-431: one iteration of the loop that keeps the original
\* descriptor and, with a proxy configured, pushes its variants right after
\* it; or the end of the loop and the return to the caller.
OrigPlainStep ==
    /\ UNCHANGED <<cvars, fvars>>
    /\ UNCHANGED <<sregen, scalls, sscript, schan>>
    /\ spc = "origPlain"
    /\ UNCHANGED <<scfg, found, nUrls, resolved0>>
    /\ IF idx > Len(originalStreamDetails)
       THEN /\ NoProxyCall /\ UNCHANGED threw
            /\ ReturnOriginal(streams)
       ELSE IF ~ProxyConfigured(scfg)
       THEN /\ NoProxyCall /\ UNCHANGED threw
            /\ Goto("origPlain", PushOriginalAndVariants(streams, idx, <<>>),
                    FALSE, idx + 1, from)
       ELSE \E o \in ProxyOutcomes :
              /\ getProxyStreams(originalStreamDetails[idx], o)
              /\ IF o.throws
                 THEN /\ threw' = threw \cup {"proxy"}
                      /\ ThrowInOriginal
                 ELSE /\ UNCHANGED threw
                      /\ Goto("origPlain",
                              PushOriginalAndVariants(streams, idx,
                                  ProxyVariants(originalStreamDetails[idx], o.n)),
                              FALSE, idx + 1, from)

\* Lines 352-388: the metadata is attached and the list returned.
Finish ==
    /\ UNCHANGED <<cvars, fvars>>
    /\ UNCHANGED <<sregen, scalls, sscript, schan>>
    /\ spc = "meta"
    /\ NoProxyCall
    /\ UNCHANGED <<scfg, found, nUrls, resolved0, threw>>
    /\ Answer(streams, AttachMeta(streams, MetaOf(schan)))

\* The caller took the answer; the next request may come.
StreamReturn ==
    /\ UNCHANGED <<cvars, fvars>>
    /\ spc = "done"
    /\ spc' = "idle"
    /\ scfg' = NoConfig
    /\ found' = FALSE
    /\ nUrls' = 0
    /\ resolved0' = <<>>
    /\ memo' = [c \in ProxyClasses |-> NoAnswer]
    /\ proxyLog' = <<>>
    /\ threw' = {}
    /\ result' = <<>>
    /\ sout' = "none"
    /\ schan' = ""
    /\ rmeta' = <<>>
    /\ sregen' = FALSE
    /\ scalls' = <<>>
    /\ sscript' = "none"
    /\ UNCHANGED <<streams, aliased, idx, from>>

NextStream ==
    \/ \E c \in StreamConfigs, updateThrows \in BOOLEAN, hit \in BOOLEAN,
          n \in 0..MaxUrls, id \in ChannelIds :
             StreamRequest(c, updateThrows, hit, n, id)
    \/ \E c \in StreamConfigs : ChannelLookupThrows(c)
    \/ \E c \in StreamConfigs, updateThrows \in BOOLEAN :
          RegenerateRequest(c, updateThrows)
    \/ \E outcome \in {"true", "false", "threw"} : ScriptSettles(outcome)
    \/ \E throws \in BOOLEAN : RebuildSettles(throws)
    \/ \E k \in 0..MaxResolved : ResolverReturns(k)
    \/ ResolverThrows
    \/ ForceLoopStep
    \/ AppendLoopStep
    \/ OrigForceStep
    \/ OrigPlainStep
    \/ Finish
    \/ StreamReturn

-----------------------------------------------------------------------------
(* Strings of the catalog request.  A string is a sequence of tokens: a     *)
(* letter, a digit, "-", "=", or the marker "&skip" taken as one token (no  *)
(* string built from the other tokens contains it).  The empty sequence is  *)
(* the empty string and also an absent value: the code only tests both for  *)
(* truth.                                                                   *)

Digits == {"0", "1", "2"}

DigitValue(d) == IF d = "0" THEN 0 ELSE IF d = "1" THEN 1 ELSE 2

RECURSIVE LeadingDigits(_)
\* The longest prefix of s made of digits.
LeadingDigits(s) ==
    IF s = <<>> \/ Head(s) \notin Digits THEN <<>>
    ELSE <<Head(s)>> \o LeadingDigits(Tail(s))

RECURSIVE DecimalValue(_)
DecimalValue(ds) ==
    IF ds = <<>> THEN 0
    ELSE 10 * DecimalValue(SubSeq(ds, 1, Len(ds) - 1)) + DigitValue(ds[Len(ds)])

\* parseInt(s) || 0 for a string s: an optional sign, then the leading
\* digits; NaN (no digit) and zero both give 0.
ParseIntOrZero(s) ==
    LET neg  == s # <<>> /\ Head(s) = "-"
        body == IF neg THEN Tail(s) ELSE s
        ds   == LeadingDigits(body)
    IN  IF ds = <<>> THEN 0
        ELSE IF neg THEN 0 - DecimalValue(ds) ELSE DecimalValue(ds)

\* Values of extra.skip: absent, a number, or a string.
AbsentSkip == [k |-> "absent", n |-> 0, s |-> <<>>]
NumSkip(n) == [k |-> "num", n |-> n, s |-> <<>>]
StrSkip(s) == [k |-> "str", n |-> 0, s |-> s]

\* `let { skip = 0 } = extra`: the default stands in for an absent skip.
DefaultSkip(sk) == IF sk.k = "absent" THEN NumSkip(0) ELSE sk

\* JavaScript's truth value of a skip: a non-zero number, a non-empty string.
Truthy(sk) == (sk.k = "num" /\ sk.n # 0) \/ (sk.k = "str" /\ sk.s # <<>>)

\* Line 93: skip = parseInt(skip) || 0
NormalizeSkip(sk) == IF sk.k = "str" THEN ParseIntOrZero(sk.s) ELSE sk.n

\* Position of the first "&skip" in s, 0 when there is none.
IndexOfSkipMarker(s) ==
    IF \E i \in 1..Len(s) : s[i] = "&skip"
    THEN CHOOSE i \in 1..Len(s) :
            s[i] = "&skip" /\ \A j \in 1..(i - 1) : s[j] # "&skip"
    ELSE 0

\* genre.split('&skip')[0]
SplitHead(s) ==
    IF IndexOfSkipMarker(s) = 0 THEN s ELSE SubSeq(s, 1, IndexOfSkipMarker(s) - 1)

\* genre.split('&skip')[1] when genre includes '&skip': what stands between
\* the first marker and the next one (or the end).
SplitSecond(s) ==
    LET rest == SubSeq(s, IndexOfSkipMarker(s) + 1, Len(s)) IN SplitHead(rest)

\* The genre is stored as received, the skip suffix included.
CleanGenre_Raw(genre) == genre

\* Lines 75-77: the genre with an embedded '&skip...' suffix removed.
CleanGenre(genre) ==
    IF IndexOfSkipMarker(genre) # 0 THEN SplitHead(genre) ELSE genre

\* A skip the request carries itself wins over the one embedded in the genre.
EffectiveSkip_ExplicitWins(genre, sk) ==
    IF sk.k = "absent" /\ IndexOfSkipMarker(genre) # 0
          /\ SplitSecond(genre) # <<>> /\ Head(SplitSecond(genre)) = "="
    THEN NumSkip(ParseIntOrZero(Tail(SplitSecond(genre))))
    ELSE DefaultSkip(sk)

\* Lines 73-81: the skip after the destructuring default and the override by
\* a skip embedded in the genre value.
EffectiveSkip(genre, sk) ==
    IF IndexOfSkipMarker(genre) # 0
          /\ SplitSecond(genre) # <<>> /\ Head(SplitSecond(genre)) = "="
    THEN NumSkip(ParseIntOrZero(Tail(SplitSecond(genre))))
    ELSE DefaultSkip(sk)

-----------------------------------------------------------------------------
(* The cache manager, as the catalog sees it *)

NoFilter == [kind |-> "none", value |-> <<>>]

\* Number of channels of the cache snapshot.
NumChannels == 5

\* handlers.js:94
ITEMS_PER_PAGE == 100

\* The cached channels, in cache order: id, name and genre.
Channels ==
    [i \in 1..NumChannels |->
        [id    |-> i,
         name  |-> IF i % 3 = 0 THEN <<"h", "1">> ELSE <<"h", "g">>,
         genre |-> IF i % 2 = 1 THEN <<"g">> ELSE <<"h">>]]

\* s occurs in name.
Includes(name, s) ==
    \E i \in 0..(Len(name) - Len(s)) : SubSeq(name, i + 1, i + Len(s)) = s

\* CacheManager.getFilteredChannels() under the stored filter f.
getFilteredChannels(f) ==
    LET Keep(ch) == CASE f.kind = "genre"  -> ch.genre = f.value
                      [] f.kind = "search" -> Includes(ch.name, f.value)
                      [] OTHER             -> TRUE
    IN  SelectSeq(Channels, Keep)

\* CacheManager.getCachedData().genres
Genres == <<<<"g">>, <<"h">>>>

\* Array.prototype.slice(start, end) on a sequence.
Slice(xs, start, end) ==
    LET from0 == IF start < 0
                 THEN (IF Len(xs) + start < 0 THEN 0 ELSE Len(xs) + start)
                 ELSE (IF start > Len(xs) THEN Len(xs) ELSE start)
        to0   == IF end < 0
                 THEN (IF Len(xs) + end < 0 THEN 0 ELSE Len(xs) + end)
                 ELSE (IF end > Len(xs) THEN Len(xs) ELSE end)
    IN  SubSeq(xs, from0 + 1, to0)

\* The page is everything from the start index on.
Metas_WholeTail(F, skip) ==
    LET page == Slice(F, skip, Len(F))
    IN  [n \in 1..Len(page) |-> page[n].id]

\* Lines 100-141: the page of the filtered channels F that starts at skip,
\* and the ids of its metas, in the page's order.
Metas(F, skip) ==
    LET page == Slice(F, skip, skip + ITEMS_PER_PAGE)
    IN  [n \in 1..Len(page) |-> page[n].id]

-----------------------------------------------------------------------------
(* catalogHandler, handlers.js:50-152 *)

Clients == {"A", "B"}

Letters == {<<"g">>, <<"h">>}

SearchInputs == {<<>>} \cup Letters

GenreInputs ==
    {<<>>, <<"g">>, <<"h">>,
     <<"g", "&skip", "=", "1">>, <<"h", "&skip", "=", "0">>,
     <<"&skip", "=", "2">>, <<"g", "&skip", "2">>, <<"g", "&skip">>,
     <<"g", "&skip", "=", "g">>}

\* Largest skip a request carries as a number.
MaxSkip == 2

SkipInputs ==
    {AbsentSkip} \cup {NumSkip(n) : n \in (0 - 1)..MaxSkip}
        \cup {StrSkip(s) : s \in {<<"0">>, <<"1">>, <<"g">>, <<"-", "1">>, <<"1", "g">>}}

Extras == [search : SearchInputs, genre : GenreInputs, skip : SkipInputs]

NoExtra == [search |-> <<>>, genre |-> <<>>, skip |-> AbsentSkip]

-----------------------------------------------------------------------------
(* The meta of a channel, handlers.js:102-141, 154-188 and 353-382.  A      *)
(* string of a channel or of the EPG is known by where it comes from; the  *)
(* empty string is also the absent value, the code tests both with || and  *)
(* !.                                                                      *)

\* Ids of channel.streamInfo.tvg.id, as token sequences.
TvgIds == {<<>>, <<"a">>, <<"A">>, <<"A", "-", "1">>}

\* The normalized ids the EPG may hold a current program for.
ProgramIds == {<<"a">>, <<"a", "1">>}

MetaChannels ==
    [poster : {"", "channel"}, background : {"", "channel"},
     logo : {"", "channel"}, description : {"", "channel"}, tvgId : TvgIds]

\* userConfig.epg_enabled: absent, 'true' or 'false'.
EpgEnabledValues == {"", "true", "false"}

\* The EPG manager: whether it holds an icon for the channel's id, and the
\* normalized ids it holds a current program for.
EpgStates == [icon : BOOLEAN, programs : SUBSET ProgramIds]

NoChannel ==
    [poster |-> "", background |-> "", logo |-> "", description |-> "",
     tvgId |-> <<>>]

NoEpg == [icon |-> FALSE, programs |-> {}]

NoMeta ==
    [poster |-> "", background |-> "", logo |-> "", description |-> "",
     releaseInfo |-> ""]

\* a || b on strings
Or(a, b) == IF a # "" THEN a ELSE b

\* Lines 103-105 and 353-355: the placeholder image URL, never empty.
fallbackLogo == "placeholder"

\* String.prototype.toLowerCase on a token.
ToLowerCase(c) == IF c = "A" THEN "a" ELSE c

\* Lines 10-12: lower case, then every character but letters, digits, "_"
\* and "." removed.
normalizeId(id) ==
    LET lower == [i \in 1..Len(id) |-> ToLowerCase(id[i])]
        Kept(c) == c \in {"a", "1", "_", "."}
    IN  SelectSeq(lower, Kept)

\* EPGManager.getChannelIcon(id): the icon, or nothing.
getChannelIcon(epg, id) == IF epg.icon THEN "epg" ELSE ""

\* EPGManager.getCurrentProgram(id) returned a program.
getCurrentProgram(epg, id) == id \in epg.programs

\* Lines 109-125 and 357-373, the fields followed here: the meta built from
\* the channel, `described` being the description that stands in for a
\* missing one.
InitialMeta(ch, described) ==
    [poster      |-> Or(ch.poster, fallbackLogo),
     background  |-> Or(ch.background, fallbackLogo),
     logo        |-> Or(ch.logo, fallbackLogo),
     description |-> Or(ch.description, described),
     releaseInfo |-> "LIVE"]

\* The condition of lines 131 and 375.
IconWanted(meta, ch) ==
    /\ meta.poster = "" \/ meta.background = "" \/ meta.logo = ""
    /\ ch.tvgId # <<>>

\* Lines 131-138 and 375-382: the EPG icon fills the artwork still missing.
IconLookup(meta, ch, epg) ==
    LET epgIcon == IF IconWanted(meta, ch) THEN getChannelIcon(epg, ch.tvgId)
                   ELSE ""
    IN  IF epgIcon # ""
        THEN [meta EXCEPT !.poster = Or(@, epgIcon),
                          !.background = Or(@, epgIcon),
                          !.logo = Or(@, epgIcon)]
        ELSE meta

\* Lines 154-188, with userConfig.epg_enabled for userConfig.
enrichWithEPG(meta, channelId, epgEnabled, epg) ==
    IF epgEnabled = "" \/ channelId = <<>>
    THEN [meta EXCEPT !.description = "live", !.releaseInfo = "LIVE"]
    ELSE IF getCurrentProgram(epg, normalizeId(channelId))
    THEN [meta EXCEPT !.description = "epg", !.releaseInfo = "EN DIRECT"]
    ELSE meta

\* The EPG lookups of lines 132 and 160-161 (375-382 for the stream meta).
EpgLookups(ch, epgEnabled, described, enrich) ==
    (IF IconWanted(InitialMeta(ch, described), ch)
     THEN {"getChannelIcon"} ELSE {})
    \cup (IF enrich /\ epgEnabled # "" /\ ch.tvgId # <<>>
          THEN {"getCurrentProgram", "getUpcomingPrograms"} ELSE {})

-----------------------------------------------------------------------------
(* cleanNameForImage, handlers.js:14-48.  A name is the sequence of its    *)
(* characters.                                                             *)

DecimalDigits == {"0", "1", "2", "3", "4", "5", "6", "7", "8", "9"}

AsciiLetters ==
    {"a", "b", "c", "d", "e", "f", "g", "h", "i", "j", "k", "l", "m", "n",
     "o", "p", "q", "r", "s", "t", "u", "v", "w", "x", "y", "z",
     "A", "B", "C", "D", "E", "F", "G", "H", "I", "J", "K", "L", "M", "N",
     "O", "P", "Q", "R", "S", "T", "U", "V", "W", "X", "Y", "Z"}

\* \s of the regular expressions, on the characters the names are made of.
IsSpace(c) == c = " "

\* The character at index i of s is c / is a digit.
Is(s, i, c) == i <= Len(s) /\ s[i] = c
DigitAt(s, i) == i <= Len(s) /\ s[i] \in DecimalDigits

RECURSIVE SkipSpaces(_, _)
\* \s* from index i: the index of the first character that is no space.
SkipSpaces(s, i) ==
    IF i <= Len(s) /\ IsSpace(s[i]) THEN SkipSpaces(s, i + 1) ELSE i

RECURSIVE TrimEnd(_)
TrimEnd(s) ==
    IF s # <<>> /\ IsSpace(s[Len(s)]) THEN TrimEnd(SubSeq(s, 1, Len(s) - 1))
    ELSE s

\* String.prototype.trim
Trim(s) == TrimEnd(SubSeq(s, SkipSpaces(s, 1), Len(s)))

\* Line 16: where the match of \d{2}/\d{2}/\d{2}\s*-\s*\d{2}:\d{2}\s*\(CET\)
\* that starts at index i ends (the index after it), 0 when there is none.
DateEnd(s, i) ==
    LET b == SkipSpaces(s, i + 8)
        c == SkipSpaces(s, b + 1)
        d == SkipSpaces(s, c + 5)
    IN  IF /\ DigitAt(s, i) /\ DigitAt(s, i + 1) /\ Is(s, i + 2, "/")
           /\ DigitAt(s, i + 3) /\ DigitAt(s, i + 4) /\ Is(s, i + 5, "/")
           /\ DigitAt(s, i + 6) /\ DigitAt(s, i + 7)
           /\ Is(s, b, "-")
           /\ DigitAt(s, c) /\ DigitAt(s, c + 1) /\ Is(s, c + 2, ":")
           /\ DigitAt(s, c + 3) /\ DigitAt(s, c + 4)
           /\ Is(s, d, "(") /\ Is(s, d + 1, "C") /\ Is(s, d + 2, "E")
           /\ Is(s, d + 3, "T") /\ Is(s, d + 4, ")")
        THEN d + 5
        ELSE 0

\* s with the index of each character: <<i, s[i]>>.
Indexed(s) == [i \in 1..Len(s) |-> <<i, s[i]>>]

\* The characters of a sequence of <<index, character>>.
Characters(ps) == [n \in 1..Len(ps) |-> ps[n][2]]

\* Line 16: replace(/<date>/g, ''): every character of a match is dropped.
\* No match begins inside another one (a match holds "/" only in its first
\* eight characters), so the matches are all those DateEnd finds.
RemoveDates(s) ==
    LET Starts == {i \in 1..Len(s) : DateEnd(s, i) # 0}
        Kept(p) == \A i \in Starts : p[1] < i \/ p[1] >= DateEnd(s, i)
    IN  Characters(SelectSeq(Indexed(s), Kept))

\* The year is removed whether a space follows it or not.
RemoveLeadingYear_NoSpaceNeeded(s) ==
    IF Is(s, 1, "2") /\ Is(s, 2, "0") /\ DigitAt(s, 3) /\ DigitAt(s, 4)
    THEN SubSeq(s, SkipSpaces(s, 5), Len(s))
    ELSE s

\* Line 19: replace(/^20\d{2}\s+/, '')
RemoveLeadingYear(s) ==
    IF /\ Is(s, 1, "2") /\ Is(s, 2, "0") /\ DigitAt(s, 3) /\ DigitAt(s, 4)
       /\ 5 <= Len(s) /\ IsSpace(s[5])
    THEN SubSeq(s, SkipSpaces(s, 5), Len(s))
    ELSE s

\* Line 22: replace(/[^a-zA-Z0-9\s-]/g, '')
RemoveSpecial(s) ==
    LET Kept(c) == c \in AsciiLetters \/ c \in DecimalDigits
                      \/ IsSpace(c) \/ c = "-"
    IN  SelectSeq(s, Kept)

\* Line 25: replace(/\s+/g, ' '): of every run of spaces the first is
\* kept (the spaces of the names are all ' ').
CollapseSpaces(s) ==
    LET Kept(p) == ~IsSpace(p[2]) \/ p[1] = 1 \/ ~IsSpace(s[p[1] - 1])
    IN  Characters(SelectSeq(Indexed(s), Kept))

\* Index of the first ' - ' in s, 0 when there is none.
IndexOfSeparator(s) ==
    LET At(i) == s[i] = " " /\ s[i + 1] = "-" /\ s[i + 2] = " "
        Where == {i \in 1..(Len(s) - 2) : At(i)}
    IN  IF Where = {} THEN 0
        ELSE CHOOSE i \in Where : \A j \in Where : i <= j

\* Lines 28-31: the part before the first ' - ', when there is one.
MainPart(s) ==
    IF IndexOfSeparator(s) # 0
    THEN Trim(SubSeq(s, 1, IndexOfSeparator(s) - 1))
    ELSE s

RECURSIVE SplitWords(_)
\* cleaned.split(' ')
SplitWords(s) ==
    LET Spaces == {i \in 1..Len(s) : s[i] = " "}
        first  == CHOOSE i \in Spaces : \A j \in Spaces : i <= j
    IN  IF Spaces = {} THEN <<s>>
        ELSE <<SubSeq(s, 1, first - 1)>>
                \o SplitWords(SubSeq(s, first + 1, Len(s)))

\* handlers.js:34 and 38
MaxNameLength == 30
MaxTruncated == 27

RECURSIVE TakeWords(_, _)
\* Lines 37-43: the loop over the words, from the kept so far.
TakeWords(words, kept) ==
    IF words = <<>> THEN kept
    ELSE IF Len(kept) + 1 + Len(Head(words)) <= MaxTruncated
    THEN TakeWords(Tail(words),
                   (IF kept # <<>> THEN kept \o <<" ">> ELSE kept)
                      \o Head(words))
    ELSE kept

\* Lines 34-45
Truncate(s) ==
    IF Len(s) > MaxNameLength
    THEN TakeWords(SplitWords(s), <<>>) \o <<".", ".", ".">>
    ELSE s

NoName == <<"N", "o", " ", "N", "a", "m", "e">>

\* Lines 14-31: `cleaned` when line 33 is reached.
MainName(name) ==
    LET undated  == Trim(RemoveDates(name))
        unyeared == RemoveLeadingYear(undated)
        plain    == Trim(CollapseSpaces(RemoveSpecial(unyeared)))
    IN  MainPart(plain)

\* Lines 14-48
cleanNameForImage(name) ==
    LET cleaned == Truncate(MainName(name))
    IN  IF cleaned = <<>> THEN NoName ELSE cleaned

\* The pieces the channel names are made of: a short word, a word of 16
\* letters, a word of 27 letters (longer than what a truncated name keeps),
\* a space, a separator, a year, a special character and a date with time.
NamePieces ==
    {<<"t", "v">>,
     [i \in 1..16 |-> "a"],
     [i \in 1..27 |-> "b"],
     <<" ">>,
     <<" ", "-", " ">>,
     <<"2", "0", "2", "4">>,
     <<".">>,
     <<"1", "2", "/", "0", "5", "/", "2", "4", " ", "-", " ",
       "2", "0", ":", "4", "5", " ", "(", "C", "E", "T", ")">>}

\* Largest number of pieces of a name.
MaxPieces == 3

RECURSIVE NamesOf(_)
\* The names made of n pieces.
NamesOf(n) ==
    IF n = 0 THEN {<<>>}
    ELSE {a \o b : a \in NamesOf(n - 1), b \in NamePieces}

Names == UNION {NamesOf(n) : n \in 0..MaxPieces}

\* Titles of events.
Titles == {<<"S", "e", "r", "i", "e", " ", "A">>, <<"t", "v">>}

\* The name of an event: '<year> <title> - <dd/dd/dd - dd:dd (CET)>'.
EventName(title) ==
    <<"2", "0", "2", "4", " ">> \o title \o <<" ", "-", " ">>
       \o <<"1", "2", "/", "0", "5", "/", "2", "4", " ", "-", " ",
            "2", "0", ":", "4", "5", " ", "(", "C", "E", "T", ")">>

-----------------------------------------------------------------------------
(* The headers of the original stream details, handlers.js:253-271.  A       *)
(* header mapping is a function from header names to values; stream.headers *)
(* of a cached URL is such a mapping or is undefined.                        *)

\* config.defaultUserAgent
defaultUserAgent == "default"

\* The mapping with the given User-Agent and Referer; "absent" is no entry.
HeaderMap(ua, referer) ==
    [name \in (IF ua = "absent" THEN {} ELSE {"User-Agent"})
                 \cup (IF referer = "absent" THEN {} ELSE {"Referer"}) |->
        IF name = "User-Agent" THEN ua ELSE referer]

\* stream.headers is undefined.
Undefined == [defined |-> FALSE, map |-> HeaderMap("absent", "absent")]

\* stream.headers is the mapping mp.
Defined(mp) == [defined |-> TRUE, map |-> mp]

\* What stream.headers of a cached URL can be: undefined, or a mapping with
\* the User-Agent missing, empty or given, and with a Referer or without.
CachedHeaders ==
    {Undefined} \cup
    {Defined(HeaderMap(ua, referer)) : ua \in {"absent", "", "vlc"},
                                       referer \in {"absent", "r1", "r2"}}

\* channel.streamInfo.urls of the cached channel, by the headers of each URL.
CachedUrls ==
    UNION {[1..n -> CachedHeaders] : n \in 0..MaxUrls}

\* Lines 260-262: the mapping after the default User-Agent was written where
\* none was, or an empty one.
FillUserAgent(mp) ==
    IF "User-Agent" \in DOMAIN mp /\ mp["User-Agent"] # ""
    THEN mp
    ELSE [name \in DOMAIN mp \cup {"User-Agent"} |->
             IF name = "User-Agent" THEN defaultUserAgent ELSE mp[name]]

\* Lines 259-268: the headers of the detail built from a URL whose
\* stream.headers is h.
DetailHeaders(h) == FillUserAgent(h.map)

\* Lines 259-262: stream.headers of the URL afterwards.  `headers` is
\* stream.headers itself when that is defined, so the write of line 261
\* goes into it; it is a new object only when stream.headers is undefined.
HeadersAfter(h) ==
    IF h.defined THEN Defined(FillUserAgent(h.map)) ELSE h

\* Lines 253-271: the original stream details of the cached channel.
OriginalDetails ==
    /\ hpc = "idle"
    /\ hpc' = "done"
    /\ hbefore' = hcache
    /\ hdetails' = [n \in 1..Len(hcache) |-> DetailHeaders(hcache[n])]
    /\ hcache' = [n \in 1..Len(hcache) |-> HeadersAfter(hcache[n])]
    /\ UNCHANGED <<svars, cvars, pvars, mvars, nvars, evars>>

\* The call returned; the cache keeps what it holds.
DetailsReturn ==
    /\ hpc = "done"
    /\ hpc' = "idle"
    /\ hbefore' = <<>>
    /\ hdetails' = <<>>
    /\ UNCHANGED hcache
    /\ UNCHANGED <<svars, cvars, pvars, mvars, nvars, evars>>

\* index.js:71, 135 and 494 and handlers.js:216: rebuildCache loads the
\* playlist anew; the channel has the declared URLs urls.
CacheRebuilt(urls) ==
    /\ hpc = "idle"
    /\ hcache' = urls
    /\ UNCHANGED <<hpc, hbefore, hdetails>>
    /\ UNCHANGED <<svars, cvars, pvars, mvars, nvars, evars>>

NextHeaders ==
    \/ \E urls \in CachedUrls : CacheRebuilt(urls)
    \/ OriginalDetails
    \/ DetailsReturn

-----------------------------------------------------------------------------
(* safeParseExtra, index.js:312-351 *)

(* An extra string is a sequence of tokens: the words "genre", "skip" and   *)
(* "search" (no string built from the other tokens contains them), "=",     *)
(* "&", a letter, a digit, "-", the escapes "%26" and "%3D", a "%" that     *)
(* begins no escape, and "{}" for the JSON text of the empty object.        *)

\* A value safeParseExtra returns: an object with the given keys (the fields
\* of the other keys are empty), or the number JSON.parse read.
Result(kind, keys, search, genre, skip) ==
    [kind |-> kind, keys |-> keys, search |-> search, genre |-> genre,
     skip |-> skip]

\* No extra was parsed.
NoResult == Result("none", {}, <<>>, <<>>, 0)

\* {}
EmptyObject == Result("object", {}, <<>>, <<>>, 0)

\* Line 316: decodeURIComponent(extraParam) for a well-formed string.
decodeURIComponent(s) ==
    [i \in 1..Len(s) |->
        IF s[i] = "%26" THEN "&" ELSE IF s[i] = "%3D" THEN "=" ELSE s[i]]

\* s.startsWith(p)
StartsWith(s, p) == Len(s) >= Len(p) /\ SubSeq(s, 1, Len(p)) = p

\* s.includes(p)
IncludesText(s, p) ==
    \E i \in 1..(Len(s) - Len(p) + 1) : SubSeq(s, i, i + Len(p) - 1) = p

\* Position of the first token sep in s, 0 when there is none.
IndexOfToken(s, sep) ==
    IF \E i \in 1..Len(s) : s[i] = sep
    THEN CHOOSE i \in 1..Len(s) :
            s[i] = sep /\ \A j \in 1..(i - 1) : s[j] # sep
    ELSE 0

RECURSIVE Split(_, _)
\* s.split(sep)
Split(s, sep) ==
    IF IndexOfToken(s, sep) = 0 THEN <<s>>
    ELSE <<SubSeq(s, 1, IndexOfToken(s, sep) - 1)>>
            \o Split(SubSeq(s, IndexOfToken(s, sep) + 1, Len(s)), sep)

\* parts.filter(p => p.startsWith(prefix)); parts.find gives its first
\* element, or undefined when it is empty.
PartsWith(parts, prefix) ==
    LET Begins(part) == StartsWith(part, prefix) IN SelectSeq(parts, Begins)

\* s.split('=')[1] for a string s that holds a "=".
AfterEquals(s) == Split(s, "=")[2]

GenreKey == <<"genre", "=">>
SkipKey == <<"skip", "=">>
SearchKey == <<"search", "=">>

\* Lines 342-346: JSON.parse(decodedExtra), {} when it raises.
\* A JSON number is an optional sign, then digits without a leading zero.
ParseJson(s) ==
    LET body == IF s # <<>> /\ Head(s) = "-" THEN Tail(s) ELSE s
        isNumber == /\ body # <<>>
                    /\ LeadingDigits(body) = body
                    /\ (Len(body) = 1 \/ Head(body) # "0")
    IN  IF s = <<"{}">> THEN EmptyObject
        ELSE IF isNumber THEN Result("number", {}, <<>>, <<>>, ParseIntOrZero(s))
        ELSE EmptyObject

\* Lines 312-351.  An exception inside (the URIError that line 316 raises on
\* a "%" that begins no escape, the TypeError of line 321 when no part
\* begins with 'genre=') is caught at line 347 and {} is returned.
safeParseExtra(extraParam) ==
    IF extraParam = <<>> THEN EmptyObject
    ELSE IF \E i \in 1..Len(extraParam) : extraParam[i] = "%" THEN EmptyObject
    ELSE LET d     == decodeURIComponent(extraParam)
             parts == Split(d, "&")
         IN  IF IncludesText(d, GenreKey) /\ IncludesText(d, <<"&", "skip", "=">>)
             THEN IF PartsWith(parts, GenreKey) = <<>> THEN EmptyObject
                  ELSE Result("object", {"genre", "skip"}, <<>>,
                              AfterEquals(Head(PartsWith(parts, GenreKey))),
                              ParseIntOrZero(AfterEquals(Head(PartsWith(parts, SkipKey)))))
             ELSE IF StartsWith(d, SkipKey)
             THEN Result("object", {"skip"}, <<>>, <<>>,
                         ParseIntOrZero(AfterEquals(d)))
             ELSE IF StartsWith(d, GenreKey)
             THEN Result("object", {"genre"}, <<>>, AfterEquals(d), 0)
             ELSE IF StartsWith(d, SearchKey)
             THEN Result("object", {"search"}, AfterEquals(d), <<>>, 0)
             ELSE ParseJson(d)

\* The extra strings of the requests: '<key>=<value><suffix>' with or
\* without a letter before the key, without key, and texts for JSON.parse.
ExtraStrings ==
    LET values   == {<<>>, <<"g">>, <<"g", "h">>, <<"1">>}
        skips    == {<<"0">>, <<"1">>, <<"1", "2">>, <<"g">>}
        suffixes ==
            {<<>>, <<"&", "skip">>, <<"&", "genre", "=", "h">>, <<"%">>,
             <<"%26", "skip", "%3D", "1">>}
                \cup {<<"&", "skip", "=">> \o n : n \in skips}
    IN  {junk \o key \o value \o suffix :
            junk \in {<<>>, <<"g">>},
            key \in {GenreKey, SkipKey, SearchKey, <<>>},
            value \in values, suffix \in suffixes}
          \cup {<<"{}">>, <<"0", "1">>, <<"-", "1">>, <<"1", "2">>}

\* index.js:227-229 and 358-360: the catalog route parses its extra.
ParseExtra(extraParam) ==
    /\ epc = "idle"
    /\ epc' = "done"
    /\ einput' = extraParam
    /\ eresult' = safeParseExtra(extraParam)
    /\ UNCHANGED <<svars, cvars, pvars, mvars, nvars, hvars>>

\* The route went on with the parsed extra.
ParseReturn ==
    /\ epc = "done"
    /\ epc' = "idle"
    /\ einput' = <<>>
    /\ eresult' = NoResult
    /\ UNCHANGED <<svars, cvars, pvars, mvars, nvars, hvars>>

NextExtra ==
    \/ \E extraParam \in ExtraStrings : ParseExtra(extraParam)
    \/ ParseReturn

\* The state before any request: no stream call is running, the filter slot
\* is clear and no catalog call is running.
Init ==
    /\ spc = "idle"
    /\ scfg = NoConfig
    /\ found = FALSE
    /\ nUrls = 0
    /\ resolved0 = <<>>
    /\ streams = <<>>
    /\ aliased = FALSE
    /\ idx = 0
    /\ from = "none"
    /\ memo = [c \in ProxyClasses |-> NoAnswer]
    /\ proxyLog = <<>>
    /\ threw = {}
    /\ result = <<>>
    /\ sout = "none"
    /\ sregen = FALSE
    /\ scalls = <<>>
    /\ sscript = "none"
    /\ schan = ""
    /\ rmeta = <<>>
    /\ lastFilter = NoFilter
    /\ cpc = [cl \in Clients |-> "idle"]
    /\ cepg = [cl \in Clients |-> FALSE]
    /\ cout = [cl \in Clients |-> "none"]
    /\ cextra = [cl \in Clients |-> NoExtra]
    /\ cprev = [cl \in Clients |-> NoFilter]
    /\ cafter = [cl \in Clients |-> NoFilter]
    /\ cmetas = [cl \in Clients |-> <<>>]
    /\ cgenres = [cl \in Clients |-> <<>>]
    /\ cstart = [cl \in Clients |-> 0]
    /\ cthrew = [cl \in Clients |-> {}]
    /\ writer = "none"
    /\ cown = [cl \in Clients |-> NoFilter]
    /\ ccalls = [cl \in Clients |-> <<>>]
    /\ ppc = "idle"
    /\ plen = 0
    /\ pskip = AbsentSkip
    /\ ppage = <<>>
    /\ mpc = "idle"
    /\ mch = NoChannel
    /\ mcfg = ""
    /\ mepg = NoEpg
    /\ mmeta = NoMeta
    /\ mcalls = {}
    /\ npc = "idle"
    /\ nname = <<>>
    /\ nclean = <<>>
    /\ ntwice = <<>>
    /\ nmain = <<>>
    /\ hpc = "idle"
    /\ hcache = <<>>
    /\ hbefore = <<>>
    /\ hdetails = <<>>
    /\ epc = "idle"
    /\ einput = <<>>
    /\ eresult = NoResult

\* The filter is cleared by every request without a filter value.
UpdateFilter_IgnoresSkip(f, search, genre, sk) ==
    IF search # <<>> THEN [kind |-> "search", value |-> search]
    ELSE IF genre # <<>> THEN [kind |-> "genre", value |-> genre]
    ELSE NoFilter

\* The filter is never cleared.
UpdateFilter_NeverClears(f, search, genre, sk) ==
    IF search # <<>> THEN [kind |-> "search", value |-> search]
    ELSE IF genre # <<>> THEN [kind |-> "genre", value |-> genre]
    ELSE f

\* Lines 83-91: the filter slot after setLastFilter / clearLastFilter, from
\* the slot f before, the search, the clean genre and the skip.
UpdateFilter(f, search, genre, sk) ==
    IF search # <<>> THEN [kind |-> "search", value |-> search]
    ELSE IF genre # <<>> THEN [kind |-> "genre", value |-> genre]
    ELSE IF ~Truthy(sk) THEN NoFilter
    ELSE f

\* return { metas: [], genres: [] } of lines 54 and 150, as client cl gets it.
EmptyAnswer(cl, how) ==
    /\ cpc' = [cpc EXCEPT ![cl] = "done"]
    /\ cout' = [cout EXCEPT ![cl] = how]
    /\ cmetas' = [cmetas EXCEPT ![cl] = <<>>]
    /\ cgenres' = [cgenres EXCEPT ![cl] = <<>>]
    /\ UNCHANGED <<cepg, cextra, cprev, cafter, cstart>>

\* The rejection clears the filter slot.
CatalogEmpty_ClearsFilter(cl, how) ==
    /\ EmptyAnswer(cl, how)
    /\ lastFilter' = NoFilter
    /\ UNCHANGED <<cthrew, writer, cown, ccalls>>

\* Lines 52-55: no playlist is configured.
CatalogEmpty(cl, how) ==
    /\ EmptyAnswer(cl, how)
    /\ UNCHANGED <<lastFilter, cthrew, writer, cown, ccalls>>

\* The genres of the cache are returned with the empty page.
CatalogCatch_KeepsGenres(cl, who) ==
    /\ cpc' = [cpc EXCEPT ![cl] = "done"]
    /\ cout' = [cout EXCEPT ![cl] = "failed"]
    /\ cmetas' = [cmetas EXCEPT ![cl] = <<>>]
    /\ cgenres' = [cgenres EXCEPT ![cl] = Genres]
    /\ cthrew' = [cthrew EXCEPT ![cl] = {who}]
    /\ UNCHANGED <<cepg, cextra, cprev, cafter, cstart>>

\* Lines 148-151: the catch of the exception that collaborator `who` raised.
CatalogCatch(cl, who) ==
    /\ EmptyAnswer(cl, "failed")
    /\ cthrew' = [cthrew EXCEPT ![cl] = {who}]

\* A request without search and genre leaves the slot clear.
FilterAfter_ContinuationClears(f, extra) ==
    IF extra.search = <<>> /\ CleanGenre(extra.genre) = <<>> THEN NoFilter
    ELSE UpdateFilter(f, extra.search, CleanGenre(extra.genre),
                      EffectiveSkip(extra.genre, extra.skip))

\* Lines 73-91: the filter slot a request with `extra` leaves, from the slot
\* f it finds.
FilterAfter(f, extra) ==
    UpdateFilter(f, extra.search, CleanGenre(extra.genre),
                 EffectiveSkip(extra.genre, extra.skip))

\* Line 93: the start index of the page of a request with `extra`.
StartIndex(extra) == NormalizeSkip(EffectiveSkip(extra.genre, extra.skip))

\* Lines 84-91: the request calls setLastFilter or clearLastFilter.
WritesFilter(extra) ==
    \/ extra.search # <<>>
    \/ CleanGenre(extra.genre) # <<>>
    \/ ~Truthy(EffectiveSkip(extra.genre, extra.skip))

\* Lines 84-91 as they change the slot, for the call of client cl.
StoreFilter(cl, extra) ==
    /\ lastFilter' = FilterAfter(lastFilter, extra)
    /\ IF WritesFilter(extra)
       THEN /\ writer' = cl
            /\ cown' = [cown EXCEPT ![cl] = FilterAfter(lastFilter, extra)]
       ELSE UNCHANGED <<writer, cown>>

\* Lines 84-91: the collaborator that stores the filter, when one is called.
FilterCall(extra) ==
    IF extra.search # <<>> \/ CleanGenre(extra.genre) # <<>>
    THEN <<"setLastFilter">>
    ELSE IF ~Truthy(EffectiveSkip(extra.genre, extra.skip))
    THEN <<"clearLastFilter">>
    ELSE <<>>

\* Lines 84-98: the collaborators a request with `extra` calls after the
\* awaited ones.
QueryCalls(extra) ==
    FilterCall(extra) \o <<"getFilteredChannels", "getCachedData">>

\* Lines 84-141: the collaborators called until `who` raises.
CallsUntil(extra, who) ==
    FilterCall(extra) \o
    (IF who = "setLastFilter" THEN <<>>
     ELSE IF who = "getFilteredChannels" THEN <<"getFilteredChannels">>
     ELSE IF who = "getCachedData" THEN <<"getFilteredChannels", "getCachedData">>
     ELSE <<"getFilteredChannels", "getCachedData", "getCurrentProgram">>)

\* The page is read from the slot as the call found it, as if the read came
\* before the store.
QueryCatalog_ReadsBeforeStore(cl, extra) ==
    LET f     == FilterAfter(lastFilter, extra)
        skip  == StartIndex(extra)
    IN  /\ StoreFilter(cl, extra)
        /\ cpc' = [cpc EXCEPT ![cl] = "done"]
        /\ cout' = [cout EXCEPT ![cl] = "served"]
        /\ cextra' = [cextra EXCEPT ![cl] = extra]
        /\ cprev' = [cprev EXCEPT ![cl] = lastFilter]
        /\ cafter' = [cafter EXCEPT ![cl] = f]
        /\ cstart' = [cstart EXCEPT ![cl] = skip]
        /\ cmetas' = [cmetas EXCEPT ![cl] =
                         Metas(getFilteredChannels(lastFilter), skip)]
        /\ cgenres' = [cgenres EXCEPT ![cl] = Genres]
        /\ ccalls' = [ccalls EXCEPT ![cl] = @ \o QueryCalls(extra)]
        /\ UNCHANGED <<cepg, cthrew>>

\* Lines 73-146, which run without yielding: the filter update, the read of
\* the filtered channels, the page and its metas.
QueryCatalog(cl, extra) ==
    LET f     == FilterAfter(lastFilter, extra)
        skip  == StartIndex(extra)
    IN  /\ StoreFilter(cl, extra)
        /\ cpc' = [cpc EXCEPT ![cl] = "done"]
        /\ cout' = [cout EXCEPT ![cl] = "served"]
        /\ cextra' = [cextra EXCEPT ![cl] = extra]
        /\ cprev' = [cprev EXCEPT ![cl] = lastFilter]
        /\ cafter' = [cafter EXCEPT ![cl] = f]
        /\ cstart' = [cstart EXCEPT ![cl] = skip]
        /\ cmetas' = [cmetas EXCEPT ![cl] = Metas(getFilteredChannels(f), skip)]
        /\ cgenres' = [cgenres EXCEPT ![cl] = Genres]
        /\ ccalls' = [ccalls EXCEPT ![cl] = @ \o QueryCalls(extra)]
        /\ UNCHANGED <<cepg, cthrew>>

\* The collaborators called by lines 84-141.
QueryCollaborators ==
    {"setLastFilter", "getFilteredChannels", "getCachedData",
     "getCurrentProgram"}

\* Lines 73-151 when collaborator `who` raises: the filter update itself
\* (setLastFilter or clearLastFilter, the slot keeps its value), one of the
\* two reads that follow it, or the EPG lookup of the first meta of the
\* page.
QueryCatalogThrows(cl, extra, who) ==
    /\ IF who = "setLastFilter"
       THEN /\ WritesFilter(extra)
            /\ UNCHANGED <<lastFilter, writer, cown>>
       ELSE /\ StoreFilter(cl, extra)
            /\ who = "getCurrentProgram" =>
                  Metas(getFilteredChannels(FilterAfter(lastFilter, extra)),
                        StartIndex(extra)) # <<>>
    /\ ccalls' = [ccalls EXCEPT ![cl] = @ \o CallsUntil(extra, who)]
    /\ CatalogCatch(cl, who)

\* No answer is waiting to be taken by its client.  Taking an answer changes
\* nothing the handlers read, so asking for it before the next step of any
\* call excludes no interleaving of the calls' steps; it keeps at most one
\* finished call's record in the state.
NoneWaiting == \A cl \in Clients : cpc[cl] # "done"

\* Lines 50-58: the playlist check and the call of updateConfig.
CatalogRequest(cl, m3u, epgInit) ==
    /\ cpc[cl] = "idle"
    /\ NoneWaiting
    /\ IF ~m3u
       THEN CatalogEmpty(cl, "rejected")
       ELSE /\ cpc' = [cpc EXCEPT ![cl] = "updateConfig"]
            /\ cepg' = [cepg EXCEPT ![cl] = epgInit]
            /\ ccalls' = [ccalls EXCEPT ![cl] = <<"updateConfig">>]
            /\ UNCHANGED <<lastFilter, cout, cextra, cprev, cafter, cmetas,
                           cgenres, cstart, cthrew, writer, cown>>
    /\ UNCHANGED <<svars, fvars>>

\* Lines 58-71: updateConfig settled; initializeEPG is called when the EPG
\* is enabled and has a source, else the call goes on to line 73.
UpdateConfigSettles(cl, throws, extra) ==
    /\ cpc[cl] = "updateConfig"
    /\ NoneWaiting
    /\ IF throws
       THEN /\ CatalogCatch(cl, "updateConfig")
            /\ UNCHANGED <<lastFilter, writer, cown, ccalls>>
       ELSE IF cepg[cl]
       THEN /\ cpc' = [cpc EXCEPT ![cl] = "initializeEPG"]
            /\ ccalls' = [ccalls EXCEPT ![cl] = @ \o <<"initializeEPG">>]
            /\ UNCHANGED <<lastFilter, cepg, cout, cextra, cprev, cafter,
                           cmetas, cgenres, cstart, cthrew, writer, cown>>
       ELSE QueryCatalog(cl, extra)
    /\ UNCHANGED <<svars, fvars>>

\* Lines 69-146: initializeEPG settled.
InitializeEPGSettles(cl, throws, extra) ==
    /\ cpc[cl] = "initializeEPG"
    /\ NoneWaiting
    /\ IF throws
       THEN /\ CatalogCatch(cl, "initializeEPG")
            /\ UNCHANGED <<lastFilter, writer, cown, ccalls>>
       ELSE QueryCatalog(cl, extra)
    /\ UNCHANGED <<svars, fvars>>

\* The requests during which a collaborator is made to raise: what the
\* collaborators are called with depends on the filter the request stores
\* and on whether it is a continuation, not on how its skip is spelled.
ThrowingExtras ==
    [search : SearchInputs, genre : {<<>>} \cup Letters,
     skip : {AbsentSkip, NumSkip(1)}]

\* Lines 73-151: the awaited calls settled and a collaborator of the part
\* that runs without yielding raises.
QueryThrows(cl, extra, who) ==
    /\ \/ cpc[cl] = "updateConfig" /\ ~cepg[cl]
       \/ cpc[cl] = "initializeEPG"
    /\ NoneWaiting
    /\ QueryCatalogThrows(cl, extra, who)
    /\ UNCHANGED <<svars, fvars>>

\* The client took the answer.
CatalogReturn(cl) ==
    /\ cpc[cl] = "done"
    /\ cpc' = [cpc EXCEPT ![cl] = "idle"]
    /\ cepg' = [cepg EXCEPT ![cl] = FALSE]
    /\ cout' = [cout EXCEPT ![cl] = "none"]
    /\ cextra' = [cextra EXCEPT ![cl] = NoExtra]
    /\ cprev' = [cprev EXCEPT ![cl] = NoFilter]
    /\ cafter' = [cafter EXCEPT ![cl] = NoFilter]
    /\ cmetas' = [cmetas EXCEPT ![cl] = <<>>]
    /\ cgenres' = [cgenres EXCEPT ![cl] = <<>>]
    /\ cstart' = [cstart EXCEPT ![cl] = 0]
    /\ cthrew' = [cthrew EXCEPT ![cl] = {}]
    /\ ccalls' = [ccalls EXCEPT ![cl] = <<>>]
    /\ UNCHANGED <<lastFilter, writer, cown>>
    /\ UNCHANGED <<svars, fvars>>

NextCatalog ==
    \/ \E cl \in Clients, m3u \in BOOLEAN, epgInit \in BOOLEAN :
          CatalogRequest(cl, m3u, epgInit)
    \/ \E cl \in Clients, throws \in BOOLEAN, extra \in Extras :
          UpdateConfigSettles(cl, throws, extra)
    \/ \E cl \in Clients, throws \in BOOLEAN, extra \in Extras :
          InitializeEPGSettles(cl, throws, extra)
    \/ \E cl \in Clients, extra \in ThrowingExtras, who \in QueryCollaborators :
          QueryThrows(cl, extra, who)
    \/ \E cl \in Clients : CatalogReturn(cl)

-----------------------------------------------------------------------------
(* The paging of catalogHandler on filtered sequences of any length *)

\* Largest number of channels the filter selects.
MaxFiltered == 103

\* What getFilteredChannels() returns when the filter selects len channels:
\* the paging reads nothing of a channel but its id.
FilteredOfLength(len) == [i \in 1..len |-> [id |-> 2 * (len - i) + 1]]

\* The skips of SkipInputs, and the skip of the second page as Stremio sends
\* it.
PageSkips ==
    SkipInputs \cup {NumSkip(ITEMS_PER_PAGE), StrSkip(<<"1", "0", "0">>)}

\* Lines 93-141 on a filtered sequence of len channels and the skip sk that
\* line 73 or line 79 left.
PageRequest(len, sk) ==
    /\ ppc = "idle"
    /\ ppc' = "done"
    /\ plen' = len
    /\ pskip' = sk
    /\ ppage' = Metas(FilteredOfLength(len), NormalizeSkip(sk))
    /\ UNCHANGED <<svars, cvars, mvars, nvars, gvars>>

\* The page was taken.
PageReturn ==
    /\ ppc = "done"
    /\ ppc' = "idle"
    /\ plen' = 0
    /\ pskip' = AbsentSkip
    /\ ppage' = <<>>
    /\ UNCHANGED <<svars, cvars, mvars, nvars, gvars>>

NextPage ==
    \/ \E len \in 0..MaxFiltered, sk \in PageSkips : PageRequest(len, sk)
    \/ PageReturn

SpecPage == Init /\ [][NextPage]_vars

-----------------------------------------------------------------------------
(* The metas of the catalog and of the stream answer, one channel at a time *)

\* Lines 102-141: the callback of paginatedChannels.map on channel ch.
CatalogMeta(ch, epgEnabled, epg) ==
    /\ mpc = "idle"
    /\ mpc' = "catalog"
    /\ mch' = ch
    /\ mcfg' = epgEnabled
    /\ mepg' = epg
    /\ mmeta' = enrichWithEPG(IconLookup(InitialMeta(ch, "Canale - ID"), ch, epg),
                              ch.tvgId, epgEnabled, epg)
    /\ mcalls' = EpgLookups(ch, epgEnabled, "Canale - ID", TRUE)
    /\ UNCHANGED <<svars, cvars, pvars, nvars, gvars>>

\* Lines 353-382: the meta streamHandler attaches to every stream.
StreamMeta(ch, epgEnabled, epg) ==
    /\ mpc = "idle"
    /\ mpc' = "stream"
    /\ mch' = ch
    /\ mcfg' = epgEnabled
    /\ mepg' = epg
    /\ mmeta' = IconLookup(InitialMeta(ch, "ID Canale"), ch, epg)
    /\ mcalls' = EpgLookups(ch, epgEnabled, "ID Canale", FALSE)
    /\ UNCHANGED <<svars, cvars, pvars, nvars, gvars>>

\* The meta was taken.
MetaReturn ==
    /\ mpc # "idle"
    /\ mpc' = "idle"
    /\ mch' = NoChannel
    /\ mcfg' = ""
    /\ mepg' = NoEpg
    /\ mmeta' = NoMeta
    /\ mcalls' = {}
    /\ UNCHANGED <<svars, cvars, pvars, nvars, gvars>>

NextMeta ==
    \/ \E ch \in MetaChannels, epgEnabled \in EpgEnabledValues,
          epg \in EpgStates : CatalogMeta(ch, epgEnabled, epg)
    \/ \E ch \in MetaChannels, epgEnabled \in EpgEnabledValues,
          epg \in EpgStates : StreamMeta(ch, epgEnabled, epg)
    \/ MetaReturn

SpecMeta == Init /\ [][NextMeta]_vars

-----------------------------------------------------------------------------
(* cleanNameForImage on a name and on its own result *)

\* Lines 103 and 353: displayName = cleanNameForImage(channel.name), and the
\* function applied once more to the display name.
CleanName(name) ==
    /\ npc = "idle"
    /\ npc' = "done"
    /\ nname' = name
    /\ nclean' = cleanNameForImage(name)
    /\ ntwice' = cleanNameForImage(cleanNameForImage(name))
    /\ nmain' = MainName(name)
    /\ UNCHANGED <<svars, cvars, pvars, mvars, gvars>>

\* The display name was taken.
NameReturn ==
    /\ npc = "done"
    /\ npc' = "idle"
    /\ nname' = <<>>
    /\ nclean' = <<>>
    /\ ntwice' = <<>>
    /\ nmain' = <<>>
    /\ UNCHANGED <<svars, cvars, pvars, mvars, gvars>>

NextName ==
    \/ \E name \in Names \cup {EventName(title) : title \in Titles} :
          CleanName(name)
    \/ NameReturn

SpecName == Init /\ [][NextName]_vars

SpecHeaders == Init /\ [][NextHeaders]_vars

SpecExtra == Init /\ [][NextExtra]_vars

SpecCatalog == Init /\ [][NextCatalog]_vars

SpecStream == Init /\ [][NextStream]_vars

\* The requests of the one catalog client that runs beside the stream calls.
BesideExtras ==
    [search : {<<>>, <<"g">>}, genre : {<<>>}, skip : {AbsentSkip, NumSkip(1)}]

\* Both handlers at work in one process: the calls of streamHandler for a
\* channel of one declared URL, interleaved at every await with the calls of
\* catalogHandler of one client.
NextHandlers ==
    \/ \E c \in StreamConfigs, updateThrows \in BOOLEAN, hit \in BOOLEAN :
          StreamRequest(c, updateThrows, hit, 1, "tv1")
    \/ \E c \in StreamConfigs : ChannelLookupThrows(c)
    \/ \E c \in StreamConfigs, updateThrows \in BOOLEAN :
          RegenerateRequest(c, updateThrows)
    \/ \E outcome \in {"true", "false", "threw"} : ScriptSettles(outcome)
    \/ \E throws \in BOOLEAN : RebuildSettles(throws)
    \/ \E k \in 0..1 : ResolverReturns(k)
    \/ ResolverThrows
    \/ ForceLoopStep
    \/ AppendLoopStep
    \/ OrigForceStep
    \/ OrigPlainStep
    \/ Finish
    \/ StreamReturn
    \/ \E m3u \in BOOLEAN, epgInit \in BOOLEAN :
          CatalogRequest("A", m3u, epgInit)
    \/ \E throws \in BOOLEAN, extra \in BesideExtras :
          UpdateConfigSettles("A", throws, extra)
    \/ \E throws \in BOOLEAN, extra \in BesideExtras :
          InitializeEPGSettles("A", throws, extra)
    \/ \E extra \in BesideExtras, who \in QueryCollaborators :
          QueryThrows("A", extra, who)
    \/ CatalogReturn("A")

SpecHandlers == Init /\ [][NextHandlers]_vars

Next ==
    \/ NextStream \/ NextCatalog \/ NextPage \/ NextMeta \/ NextName
    \/ NextHeaders \/ NextExtra

Spec == Init /\ [][Next]_vars

-----------------------------------------------------------------------------
(* Properties of the stream resolution pipeline *)

\* What the proxy answered for input x in this call.
ProxiedOf(x) == ProxyVariants(x, memo[ProxyClass(x)].n)

RECURSIVE Proxied(_)
\* proxy(x1), ..., proxy(xn) concatenated in the order of xs.
Proxied(xs) ==
    IF xs = <<>> THEN <<>> ELSE ProxiedOf(Head(xs)) \o Proxied(Tail(xs))

RECURSIVE Paired(_)
\* x1, proxy(x1), x2, proxy(x2), ...: each input followed by its variants.
Paired(xs) ==
    IF xs = <<>> THEN <<>>
    ELSE (<<Head(xs)>> \o ProxiedOf(Head(xs))) \o Paired(Tail(xs))

\* The call returned, and it had found its channel.
Served == spc = "done" /\ scfg.m3u /\ found

\* The resolver was consulted and returned at least one candidate.
ResolverAnswered == scfg.m3u /\ found /\ scfg.resolver /\ resolved0 # <<>>

\* The list was produced by the standard processing of the declared URLs and
\* not after a proxy failure on a resolver candidate.
BranchB == Served /\ (~scfg.resolver \/ resolved0 = <<>>)

\* Some proxy call on a declared URL raised in this call.
OriginalProxyThrew == \E u \in 1..nUrls : memo[<<"url", u>>].throws

\* The list the standard processing returns for the channel and userConfig
\* with the resolver disabled.
BranchBOutcome ==
    IF ~ProxyConfigured(scfg)
    THEN IF scfg.force THEN <<>> ELSE originalStreamDetails
    ELSE IF OriginalProxyThrew THEN <<>>
    ELSE IF scfg.force THEN Proxied(originalStreamDetails)
    ELSE Paired(originalStreamDetails)

\* C1: in Branch A without force_proxy and with proxy credentials, when the
\* resolver returned r1..rk (k >= 1) and no proxy call raised, the proxy is
\* never called on a proxied variant, and the returned list is r1..rk followed
\* by proxy(r1), ..., proxy(rk), the proxy having been called once per
\* candidate.
C1_ResolvedThenProxied ==
    (ResolverAnswered /\ ~scfg.force /\ ProxyConfigured(scfg)
        /\ "proxy" \notin threw) =>
        /\ \A n \in 1..Len(proxyLog) : proxyLog[n].path = <<>>
        /\ spc = "done" =>
              /\ result = resolved0 \o Proxied(resolved0)
              /\ proxyLog = resolved0

\* C2: the number of proxy calls of one streamHandler call is bounded by the
\* number of resolved candidates and declared URLs (each list counted for
\* every loop that can run over it: the candidates once, the declared URLs
\* twice, for the standard processing and its repetition from the catch of
\* line 342).
C2_ProxyCallsBounded == Len(proxyLog) <= Len(resolved0) + 2 * nUrls

\* C6: whenever the resolver is enabled and raised or returned no candidate,
\* the returned list is the one the standard processing gives for the same
\* channel, proxy answers and userConfig with the resolver disabled, which
\* is also what every call with the resolver disabled returns.
C6_FallbackEqualsBranchB == BranchB => result = BranchBOutcome

C6_Witness ==
    /\ Served /\ scfg.resolver /\ "resolver" \in threw
    /\ ProxyConfigured(scfg) /\ ~scfg.force
    /\ Len(result) >= 3

\* C7: in Branch A with force_proxy and proxy credentials, when the resolver
\* returned r1..rk (k >= 1), the returned list holds proxy variants only
\* (no resolver candidate, no original descriptor), and when no proxy call
\* raised it is exactly proxy(r1), ..., proxy(rk) in resolver order, the
\* proxy having been called on r1..rk and nothing else; it is empty when
\* every call yielded nothing.
C7_ForceProxyOnlyProxied ==
    (Served /\ ResolverAnswered /\ scfg.force /\ ProxyConfigured(scfg)) =>
        /\ \A n \in 1..Len(result) : result[n].path # <<>>
        /\ "proxy" \notin threw =>
              /\ result = Proxied(resolved0)
              /\ proxyLog = resolved0
              /\ (\A j \in 1..Len(resolved0) : memo[<<"res", j>>].n = 0)
                    => result = <<>>

C7_Witness ==
    /\ Served /\ ResolverAnswered /\ scfg.force /\ ProxyConfigured(scfg)
    /\ "proxy" \notin threw
    /\ Len(resolved0) = 2
    /\ memo[<<"res", 1>>].n = 1 /\ memo[<<"res", 2>>].n = 2
    /\ Len(result) = 3

\* C8: in Branch A with force_proxy but without both proxy credentials, when
\* the resolver returned k >= 1 candidates the returned list is exactly those
\* candidates in resolver order and the proxy is never called.
C8_ForceWithoutCredentials ==
    (Served /\ ResolverAnswered /\ scfg.force /\ ~ProxyConfigured(scfg)) =>
        /\ result = resolved0
        /\ proxyLog = <<>>

C8_Witness ==
    /\ Served /\ ResolverAnswered /\ scfg.force
    /\ scfg.proxy /\ ~scfg.proxy_pwd
    /\ Len(result) = 2

\* C9: in Branch B with force_proxy the returned list holds proxy variants
\* only; with credentials and no proxy failure it is proxy(u1), ...,
\* proxy(un) in declared order; without credentials it is empty and the proxy
\* is never called.
C9_BranchBForce ==
    (BranchB /\ scfg.force) =>
        /\ \A n \in 1..Len(result) : result[n].path # <<>>
        /\ (ProxyConfigured(scfg) /\ "proxy" \notin threw)
              => result = Proxied(originalStreamDetails)
        /\ ~ProxyConfigured(scfg) => (result = <<>> /\ proxyLog = <<>>)

C9_Witness ==
    /\ BranchB /\ scfg.force /\ ProxyConfigured(scfg)
    /\ nUrls = 2
    /\ memo[<<"url", 1>>].n = 2 /\ memo[<<"url", 2>>].n = 1
    /\ Len(result) = 3

\* C10: in Branch B without force_proxy and with no proxy failure, the
\* returned list is, for each declared URL in declared order, its original
\* descriptor immediately followed by its proxied variants (none without
\* credentials): the entries are ordered by declared URL, each original
\* stands before its own variants, and without credentials the list is the n
\* original descriptors.
C10_BranchBInterleaved ==
    (BranchB /\ ~scfg.force /\ "proxy" \notin threw) =>
        /\ result = IF ProxyConfigured(scfg)
                    THEN Paired(originalStreamDetails)
                    ELSE originalStreamDetails
        /\ \A a, b \in 1..Len(result) :
              a < b => /\ result[a].src <= result[b].src
                       /\ (result[a].src = result[b].src => result[b].path # <<>>)
        /\ \A u \in 1..nUrls : \E a \in 1..Len(result) : result[a] = OriginalStream(u)

C10_Witness ==
    /\ BranchB /\ ~scfg.force /\ ProxyConfigured(scfg)
    /\ "proxy" \notin threw
    /\ nUrls = 2
    /\ memo[<<"url", 1>>].n = 2 /\ memo[<<"url", 2>>].n = 1
    /\ Len(result) = 5

-----------------------------------------------------------------------------
(* Properties of the catalog filter state *)

\* The call of client cl reached line 73 and returned its page.
ServedCatalog(cl) == cpc[cl] = "done" /\ cout[cl] = "served"

\* The ids of the page of ITEMS_PER_PAGE channels that starts at index skip
\* (skip >= 0) of the channels selected by filter f.
PageIds(f, skip) ==
    LET F == getFilteredChannels(f)
        last == IF skip + ITEMS_PER_PAGE < Len(F) THEN skip + ITEMS_PER_PAGE
                ELSE Len(F)
    IN  [n \in 1..(IF last > skip THEN last - skip ELSE 0) |-> F[skip + n].id]

RECURSIVE BeforeMarker(_)
\* The part of a genre value that stands before its first "&skip".
BeforeMarker(g) ==
    IF g = <<>> \/ Head(g) = "&skip" THEN <<>>
    ELSE <<Head(g)>> \o BeforeMarker(Tail(g))

\* C3 as stated: every served request that carries a skip parameter but no
\* search and no genre value leaves the stored filter as it was and returns
\* a page of the channels selected by that filter.
C3_AnySkipKeepsFilter ==
    \A cl \in Clients :
        (ServedCatalog(cl) /\ cextra[cl].skip.k # "absent"
            /\ cextra[cl].search = <<>> /\ cextra[cl].genre = <<>>) =>
            /\ cafter[cl] = cprev[cl]
            /\ \E k \in 0..NumChannels : cmetas[cl] = PageIds(cprev[cl], k)

\* C3, amended: every served request that carries a skip JavaScript takes
\* for true (a non-zero number, a non-empty string) but no search and no
\* genre value leaves the stored filter as it was, and its page is the slice
\* at the normalized skip of the channels selected by that filter.
C3_TruthySkipKeepsFilter ==
    \A cl \in Clients :
        (ServedCatalog(cl) /\ Truthy(cextra[cl].skip)
            /\ cextra[cl].search = <<>> /\ cextra[cl].genre = <<>>) =>
            /\ cafter[cl] = cprev[cl]
            /\ NormalizeSkip(cextra[cl].skip) >= 0 =>
                  cmetas[cl] = PageIds(cprev[cl], NormalizeSkip(cextra[cl].skip))
            /\ \A n \in 1..Len(cmetas[cl]) :
                  \E m \in 1..Len(getFilteredChannels(cprev[cl])) :
                      getFilteredChannels(cprev[cl])[m].id = cmetas[cl][n]

C3_Witness ==
    \E cl \in Clients :
        /\ ServedCatalog(cl)
        /\ cextra[cl] = [search |-> <<>>, genre |-> <<>>, skip |-> NumSkip(1)]
        /\ cprev[cl] = [kind |-> "genre", value |-> <<"g">>]
        /\ lastFilter = cprev[cl]
        /\ cmetas[cl] = <<3, 5>>

\* C4: a served request that carries no search, no genre and no skip leaves
\* the stored filter cleared, whatever it was, and returns the first page of
\* the unfiltered channels, from index 0.
C4_FilterlessRequestClears ==
    \A cl \in Clients :
        (ServedCatalog(cl) /\ cextra[cl] = NoExtra) =>
            /\ cafter[cl] = NoFilter
            /\ Len(cmetas[cl]) =
                  (IF NumChannels < ITEMS_PER_PAGE THEN NumChannels ELSE ITEMS_PER_PAGE)
            /\ \A n \in 1..Len(cmetas[cl]) : cmetas[cl][n] = Channels[n].id

C4_Witness ==
    \E cl \in Clients :
        /\ ServedCatalog(cl)
        /\ cextra[cl] = NoExtra
        /\ cprev[cl] = [kind |-> "genre", value |-> <<"g">>]
        /\ lastFilter = NoFilter
        /\ Len(cmetas[cl]) = NumChannels

\* C5 as stated: after a served request with a non-empty search s the stored
\* filter is (search, s); after one with a non-empty genre value and no
\* search it is (genre, g), g the genre value without its '&skip...' suffix.
C5_FilterValueStored ==
    \A cl \in Clients :
        ServedCatalog(cl) =>
            /\ cextra[cl].search # <<>> =>
                  cafter[cl] = [kind |-> "search", value |-> cextra[cl].search]
            /\ (cextra[cl].search = <<>> /\ cextra[cl].genre # <<>>) =>
                  cafter[cl] = [kind |-> "genre",
                                value |-> BeforeMarker(cextra[cl].genre)]

\* C5, amended: after a served request with a non-empty search s the stored
\* filter is (search, s); after one with no search and a genre value whose
\* part before '&skip' is non-empty it is (genre, that part); the filter
\* stored before is overwritten in both cases.
C5_CleanFilterValueStored ==
    \A cl \in Clients :
        ServedCatalog(cl) =>
            /\ cextra[cl].search # <<>> =>
                  cafter[cl] = [kind |-> "search", value |-> cextra[cl].search]
            /\ (cextra[cl].search = <<>> /\ BeforeMarker(cextra[cl].genre) # <<>>) =>
                  cafter[cl] = [kind |-> "genre",
                                value |-> BeforeMarker(cextra[cl].genre)]

C5_Witness ==
    \E cl \in Clients :
        /\ ServedCatalog(cl)
        /\ cextra[cl].search = <<>>
        /\ cextra[cl].genre = <<"g", "&skip", "=", "1">>
        /\ cprev[cl] = [kind |-> "search", value |-> <<"h">>]
        /\ lastFilter = [kind |-> "genre", value |-> <<"g">>]

-----------------------------------------------------------------------------
(* Properties of the paging *)

\* The start index of the page whose record the paging variables hold.
PageStart == NormalizeSkip(pskip)

\* C11: for every start index skip >= 0 and every filtered sequence F the
\* page has min(100, max(0, |F| - skip)) entries, and its entry number n
\* (from 1) carries the id of the channel number skip + n of F.
C11_PageOfHundred ==
    LET F    == FilteredOfLength(plen)
        rest == IF plen - PageStart > 0 THEN plen - PageStart ELSE 0
        size == IF rest < 100 THEN rest ELSE 100
    IN  ppc = "done" /\ PageStart >= 0 =>
            /\ Len(ppage) = size
            /\ \A n \in 1..Len(ppage) : ppage[n] = F[PageStart + n].id

\* 103 channels are selected and the page starts at index 2: the page is
\* cut at 100 entries and leaves the last channel out.
C11_Witness ==
    /\ ppc = "done"
    /\ plen = 103
    /\ PageStart = 2
    /\ Len(ppage) = 100
    /\ ppage[1] = FilteredOfLength(103)[3].id
    /\ ppage[100] = FilteredOfLength(103)[102].id

-----------------------------------------------------------------------------
(* Properties of the skip of a catalog request *)

\* g is a genre value 'G&skip=N': a genre G without marker, then the marker,
\* "=" and a decimal number N, and nothing else.
EmbedsSkip(g) ==
    LET i == IndexOfSkipMarker(g)
    IN  /\ i # 0
        /\ Len(g) >= i + 2
        /\ g[i + 1] = "="
        /\ \A j \in (i + 2)..Len(g) : g[j] \in Digits

\* The N of a genre value 'G&skip=N'.
EmbeddedNumber(g) == DecimalValue(SubSeq(g, IndexOfSkipMarker(g) + 2, Len(g)))

\* The request with the genre G and the explicit skip N, for a request whose
\* genre value is 'G&skip=N'.
Unembedded(extra) ==
    [search |-> extra.search,
     genre  |-> BeforeMarker(extra.genre),
     skip   |-> NumSkip(EmbeddedNumber(extra.genre))]

\* C12: a served request whose genre value is 'G&skip=N' stores the filter
\* and returns the page that the request with genre G and explicit skip N
\* stores and returns from the same filter slot, whatever explicit skip the
\* request carries besides.
C12_EmbeddedSkipEquivalent ==
    \A cl \in Clients :
        ServedCatalog(cl) /\ EmbedsSkip(cextra[cl].genre) =>
            LET e == Unembedded(cextra[cl])
            IN  /\ cafter[cl] = FilterAfter(cprev[cl], e)
                /\ cmetas[cl] =
                       Metas(getFilteredChannels(FilterAfter(cprev[cl], e)),
                             StartIndex(e))

\* Genre 'g&skip=1' with the explicit skip 2, after a search for h: the page
\* is the one of genre g from index 1, the channels 3 and 5.
C12_Witness ==
    \E cl \in Clients :
        /\ ServedCatalog(cl)
        /\ cextra[cl].genre = <<"g", "&skip", "=", "1">>
        /\ cextra[cl].skip = NumSkip(2)
        /\ cextra[cl].search = <<>>
        /\ cprev[cl] = [kind |-> "search", value |-> <<"h">>]
        /\ cafter[cl] = [kind |-> "genre", value |-> <<"g">>]
        /\ cmetas[cl] = <<3, 5>>

-----------------------------------------------------------------------------
(* Properties of the filter slot shared by the clients *)

\* The request is a continuation: no search, no genre, a truthy skip.
Continuation(extra) ==
    /\ extra.search = <<>>
    /\ extra.genre = <<>>
    /\ Truthy(DefaultSkip(extra.skip))

\* C13: the filter slot is one for all clients: it holds what the call that
\* last wrote it left, and the page of a served continuation request is a
\* page of the filter of that last writer, whichever client it is.
C13_ContinuationServedFromLastWriter ==
    writer \in Clients =>
        /\ lastFilter = cown[writer]
        /\ \A cl \in Clients :
              ServedCatalog(cl) /\ Continuation(cextra[cl]) =>
                  cmetas[cl] = Metas(getFilteredChannels(cown[writer]),
                                     cstart[cl])

\* Client A last stored genre g (channels 1, 3, 5), client B stored genre h
\* after it (channels 2, 4); A's continuation with skip 1 is served channel
\* 4, a page of B's filter.
C13_Witness ==
    /\ ServedCatalog("A")
    /\ cextra["A"] = [search |-> <<>>, genre |-> <<>>, skip |-> NumSkip(1)]
    /\ cown["A"] = [kind |-> "genre", value |-> <<"g">>]
    /\ writer = "B"
    /\ cown["B"] = [kind |-> "genre", value |-> <<"h">>]
    /\ cmetas["A"] = <<4>>
    /\ cmetas["A"] # Metas(getFilteredChannels(cown["A"]), 1)

-----------------------------------------------------------------------------
(* Properties of the failures of the catalog *)

\* C15: a call of catalogHandler always ends with an answer, and when a
\* collaborator raised the answer has no meta and no genre; an answer with
\* metas is the whole page, with the genres of the cache.
C15_CatalogNeverThrows ==
    \A cl \in Clients :
        cpc[cl] = "done" =>
            /\ cout[cl] \in {"rejected", "failed", "served"}
            /\ cthrew[cl] # {} <=> cout[cl] = "failed"
            /\ cout[cl] # "served" => cmetas[cl] = <<>> /\ cgenres[cl] = <<>>
            /\ cout[cl] = "served" =>
                  /\ cgenres[cl] = Genres
                  /\ cmetas[cl] =
                        Metas(getFilteredChannels(cafter[cl]), cstart[cl])

\* The EPG lookup of a meta raised after the filter was stored: the answer
\* is empty although the filter selects channels.
C15_Witness ==
    \E cl \in Clients :
        /\ cpc[cl] = "done"
        /\ cthrew[cl] = {"getCurrentProgram"}
        /\ lastFilter = [kind |-> "genre", value |-> <<"g">>]
        /\ writer = cl
        /\ cmetas[cl] = <<>>
        /\ cgenres[cl] = <<>>

-----------------------------------------------------------------------------
(* Properties of the start index *)

\* The request carries no skip embedded in its genre, and its own skip is
\* absent or a string that does not begin with a number.
MalformedSkip(extra) ==
    /\ IndexOfSkipMarker(extra.genre) = 0
    /\ \/ extra.skip.k = "absent"
       \/ /\ extra.skip.k = "str"
          /\ LeadingDigits(extra.skip.s) = <<>>
          /\ (extra.skip.s = <<>> \/ Head(extra.skip.s) # "-")

\* C16 as stated: the start index of every served request is a
\* non-negative integer, and it is 0 when the skip is absent or malformed.
C16_StartIndexNonNegative ==
    \A cl \in Clients :
        ServedCatalog(cl) =>
            /\ cstart[cl] >= 0
            /\ MalformedSkip(cextra[cl]) => cstart[cl] = 0

-----------------------------------------------------------------------------
(* Properties of the failures of streamHandler *)

\* The call called collaborator x.
Called(x) == \E i \in 1..Len(scalls) : scalls[i] = x

\* The collaborators whose exception no inner catch stands around.
Uncaught == {"updateConfig", "getChannel", "executeScript", "rebuildCache"}

\* C14: a call of streamHandler never ends with an exception: whichever
\* collaborator raised, the call returned a streams list, and the list is
\* empty when the exception reached the outer catch.
C14_StreamNeverThrows ==
    /\ sout # "rejected"
    /\ spc = "done" =>
          /\ sout = "returned"
          /\ threw \cap Uncaught # {} => result = <<>>

\* The channel lookup raised after the configuration update: the call
\* returned the empty list.
C14_Witness ==
    /\ spc = "done"
    /\ ~sregen
    /\ scalls = <<"updateConfig", "getChannel">>
    /\ threw = {"getChannel"}
    /\ sout = "returned"
    /\ result = <<>>

-----------------------------------------------------------------------------
(* Properties of the playlist regeneration *)

\* C17 as stated: a request for the regeneration channel with a playlist
\* configured calls neither the channel lookup nor the resolver nor the
\* proxy, calls rebuildCache only after the script reported success, and
\* once the script was called returns exactly one synthetic descriptor: the
\* one of failure when the script or the rebuild failed.
C17_RegenerationReportsOutcome ==
    sregen /\ scfg.m3u =>
        /\ ~Called("getChannel")
        /\ ~Called("getResolvedStreams")
        /\ proxyLog = <<>>
        /\ Called("rebuildCache") => sscript = "true"
        /\ spc = "done" /\ Called("executeScript") =>
              /\ result \in {<<RegenDone>>, <<RegenError>>}
              /\ sscript # "true" \/ "rebuildCache" \in threw =>
                    result = <<RegenError>>

-----------------------------------------------------------------------------
(* Properties of the meta of a channel *)

\* The artwork the fallback order channel, EPG icon, placeholder gives.
FallbackArtwork(own) ==
    IF own # "" THEN "channel"
    ELSE IF mch.tvgId # <<>> /\ mepg.icon THEN "epg"
    ELSE "placeholder"

\* C18 as stated: each artwork field of a meta is the channel's own value
\* when present, else the EPG icon when the channel has a linkage id and the
\* EPG holds an icon for it, and only otherwise the placeholder.
C18_ArtworkFallbackOrder ==
    mpc # "idle" =>
        /\ mmeta.poster = FallbackArtwork(mch.poster)
        /\ mmeta.background = FallbackArtwork(mch.background)
        /\ mmeta.logo = FallbackArtwork(mch.logo)

\* The EPG is enabled, the channel has a linkage id and the EPG holds a
\* current program for the normalized id.
EpgApplies ==
    /\ mcfg = "true"
    /\ mch.tvgId # <<>>
    /\ normalizeId(mch.tvgId) \in mepg.programs

\* C19 as stated: the description and releaseInfo of a catalog meta are
\* EPG-derived only when the EPG is enabled, the channel has a linkage id and
\* the EPG holds a current program for the normalized id; in every other case
\* the description is the static live string and releaseInfo is 'LIVE'.
C19_EpgOnlyWhenEnabled ==
    mpc = "catalog" =>
        IF EpgApplies
        THEN mmeta.description = "epg" /\ mmeta.releaseInfo = "EN DIRECT"
        ELSE mmeta.description = "live" /\ mmeta.releaseInfo = "LIVE"

-----------------------------------------------------------------------------
(* Properties of cleanNameForImage *)

\* C20 as stated: cleaning a cleaned name changes nothing.
C20_CleanNameIdempotent == npc = "done" => ntwice = nclean

\* s ends with the ellipsis of a truncated name.
EndsWithEllipsis(s) ==
    Len(s) >= 3 /\ SubSeq(s, Len(s) - 2, Len(s)) = <<".", ".", ".">>

\* s begins with a year 20dd and a space.
BeginsWithYear(s) ==
    /\ Len(s) >= 5
    /\ s[1] = "2" /\ s[2] = "0"
    /\ s[3] \in DecimalDigits /\ s[4] \in DecimalDigits
    /\ s[5] = " "

\* C20: cleaning a cleaned name changes nothing, unless the cleaned name was
\* truncated with an ellipsis or begins with a year and a space.
C20_IdempotentUnlessTruncatedOrYear ==
    npc = "done" /\ ~EndsWithEllipsis(nclean) /\ ~BeginsWithYear(nclean) =>
        ntwice = nclean

\* A name of special characters and spaces only cleans to 'No Name', and so
\* does 'No Name'.
C20_Witness ==
    /\ npc = "done"
    /\ nname = <<".", " ", ".">>
    /\ nclean = NoName
    /\ ntwice = NoName

\* C21 as stated: the name of an event, '<year> <title> - <date and time>',
\* is cleaned to its title alone; '2024 Serie A - 12/05/24 - 20:45 (CET)'
\* gives 'Serie A'.
C21_EventNameGivesTitle ==
    \A title \in Titles :
        npc = "done" /\ nname = EventName(title) => nclean = title

\* The lengths of the prefixes of s that are made of whole words and are no
\* longer than n.
WholeWordPrefixes(s, n) ==
    {k \in 0..(IF Len(s) < n THEN Len(s) ELSE n) :
        \/ k = 0
        \/ /\ s[k] # " "
           /\ k = Len(s) \/ s[k + 1] = " "}

\* The longest prefix of s made of whole words and no longer than n.
LongestWordPrefix(s, n) ==
    LET ks == WholeWordPrefixes(s, n)
    IN  SubSeq(s, 1, CHOOSE k \in ks : \A j \in ks : j <= k)

\* C22 as stated: a cleaned name longer than 30 characters is cut to its
\* longest prefix of whole words of at most 27 characters, followed by
\* '...'; the result is never longer than 30 characters, and it is 'No Name'
\* when the cleaned name is empty.
C22_LongestWholeWordPrefix ==
    npc = "done" =>
        /\ Len(nmain) > 30 =>
              nclean = LongestWordPrefix(nmain, 27) \o <<".", ".", ".">>
        /\ Len(nclean) <= 30
        /\ nmain = <<>> => nclean = NoName

-----------------------------------------------------------------------------
(* Properties of the metas of the stream descriptors *)

\* C23: when the channel was found and the call went through Branch A or
\* Branch B to the end, every descriptor of the returned list carries the
\* same meta, the one of the channel, with the channel's id.
C23_SameMetaOnEveryDescriptor ==
    Served =>
        /\ Len(rmeta) = Len(result)
        /\ \A n \in 1..Len(rmeta) :
              rmeta[n] = MetaOf(schan) /\ rmeta[n].id \in ChannelIds

\* Channel tv2: a resolved descriptor, a proxied one and an original one of
\* other lists all end up with the meta of tv2; here a resolved candidate
\* followed by its proxied variant.
C23_Witness ==
    /\ Served
    /\ schan = "tv2"
    /\ Len(result) >= 2
    /\ result[1].base = "res" /\ result[1].path = <<>>
    /\ result[2].path # <<>>
    /\ rmeta[1] = MetaOf("tv2")
    /\ rmeta[2] = MetaOf("tv2")

-----------------------------------------------------------------------------
(* Properties of the writers of the filter slot *)

\* The call of client cl passed the playlist check and is at or after line
\* 58.
PassedCheck(cl) == cpc[cl] \in {"updateConfig", "initializeEPG"}

\* C24: a step changes the stored filter only when it is the step of a
\* catalogHandler call that passed the playlist check; no step of a
\* streamHandler call changes it and no streamHandler call invokes
\* setLastFilter or clearLastFilter; a catalog request rejected for a missing
\* m3u leaves the filter as it was and has invoked no collaborator.
C24_FilterWrittenOnlyByCatalog ==
    [][/\ lastFilter' # lastFilter =>
              /\ \E cl \in Clients : PassedCheck(cl) /\ cpc'[cl] = "done"
              /\ spc' = spc
       /\ \A cl \in Clients :
              cpc[cl] = "idle" /\ cout'[cl] = "rejected" =>
                  lastFilter' = lastFilter /\ ccalls'[cl] = <<>>
       /\ ~Called("setLastFilter") /\ ~Called("clearLastFilter")
       /\ sout' = "rejected" => scalls' = <<>>]_vars

\* The slot holds the search g while a catalog request was rejected and a
\* stream call for the regeneration channel ran to its end.
C24_Witness ==
    /\ lastFilter = [kind |-> "search", value |-> <<"g">>]
    /\ cout["A"] = "rejected"
    /\ ccalls["A"] = <<>>
    /\ spc = "done"
    /\ sregen
    /\ Called("rebuildCache")

-----------------------------------------------------------------------------
(* Properties of the cached channel *)

\* C25: after a stream request every field of the cached channel is as it
\* was before it, the header mapping of each declared URL included: the
\* default User-Agent is in the detail's headers and not in the cache.
C25_CachedChannelUntouched ==
    hpc = "done" =>
        /\ hcache = hbefore
        /\ \A n \in 1..Len(hdetails) :
              hdetails[n]["User-Agent"] # ""

-----------------------------------------------------------------------------
(* Properties of the channel lookup *)

\* The call passed the playlist check and the configuration update, asked
\* the cache for the channel and got none.
Missed ==
    /\ spc = "done"
    /\ scfg.m3u
    /\ ~sregen
    /\ ~found
    /\ threw = {}

\* C26: a stream request whose channel the cache does not hold returns the
\* empty list, not an error, and calls neither the resolver nor the proxy.
C26_MissReturnsEmpty ==
    Missed =>
        /\ sout = "returned"
        /\ result = <<>>
        /\ proxyLog = <<>>
        /\ ~Called("getResolvedStreams")
        /\ scalls = <<"updateConfig", "getChannel">>

\* A miss under a configuration that enables the resolver and forces the
\* proxy.
C26_Witness ==
    /\ Missed
    /\ scfg.resolver
    /\ scfg.force /\ scfg.proxy /\ scfg.proxy_pwd
    /\ result = <<>>

-----------------------------------------------------------------------------
(* Properties of requests with a malformed skip *)

\* The request carries neither a search nor a genre.
Filterless(extra) == extra.search = <<>> /\ extra.genre = <<>>

\* The skip is a string that parseInt reads no number from: it begins with
\* neither a digit nor a sign.
NonNumericSkip(sk) ==
    /\ sk.k = "str"
    /\ LeadingDigits(sk.s) = <<>>
    /\ (sk.s = <<>> \/ Head(sk.s) # "-")

\* The request with the skip 0 in place of its own.
WithSkipZero(extra) == [extra EXCEPT !.skip = NumSkip(0)]

\* C27: a served request without search and genre whose skip is a
\* non-numeric string leaves the filter slot and returns the page that the
\* same request with skip 0 leaves and returns from the same filter slot.
C27_MalformedSkipLikeZero ==
    \A cl \in Clients :
        ServedCatalog(cl) /\ Filterless(cextra[cl])
            /\ NonNumericSkip(cextra[cl].skip) =>
                LET zero == WithSkipZero(cextra[cl])
                    f    == FilterAfter(cprev[cl], zero)
                IN  /\ cafter[cl] = f
                    /\ lastFilter = f
                    /\ cmetas[cl] = Metas(getFilteredChannels(f), StartIndex(zero))

-----------------------------------------------------------------------------
(* Properties of concurrent catalog requests *)

\* The request carries a search, or a genre that is not empty once its skip
\* suffix is removed.
CarriesFilter(extra) ==
    extra.search # <<>> \/ CleanGenre(extra.genre) # <<>>

\* The filter a request that carries one asks for (lines 84-87).
OwnFilter(extra) ==
    IF extra.search # <<>>
    THEN [kind |-> "search", value |-> extra.search]
    ELSE [kind |-> "genre", value |-> CleanGenre(extra.genre)]

\* C28: however the calls of the clients interleave, a served request that
\* carries its own search or genre gets the page of the channels selected
\* by that value: the store of the filter and the read of the filtered
\* channels are one step, so the slot holds the request's own filter when
\* it is read.
C28_OwnFilterServed ==
    \A cl \in Clients :
        ServedCatalog(cl) /\ CarriesFilter(cextra[cl]) =>
            /\ cafter[cl] = OwnFilter(cextra[cl])
            /\ cmetas[cl] =
                  Metas(getFilteredChannels(OwnFilter(cextra[cl])), cstart[cl])

\* Client A asked for genre g and was served its page while the slot held
\* the genre h of client B and another call of B stood at an await.
C28_Witness ==
    /\ ServedCatalog("A")
    /\ cextra["A"].genre = <<"g">>
    /\ cextra["A"].search = <<>>
    /\ cprev["A"] = [kind |-> "genre", value |-> <<"h">>]
    /\ cown["B"] = [kind |-> "genre", value |-> <<"h">>]
    /\ cpc["B"] \in {"updateConfig", "initializeEPG"}
    /\ cmetas["A"] = Metas(getFilteredChannels(OwnFilter(cextra["A"])), 0)
    /\ cmetas["A"] # <<>>
    /\ cmetas["A"] # Metas(getFilteredChannels(cprev["A"]), 0)

-----------------------------------------------------------------------------
(* Properties of a proxy failure in the standard processing *)

\* x is the original descriptor of a declared URL.
IsOriginal(x) == x.base = "url" /\ x.path = <<>>

\* C29: in Branch B without force_proxy and with proxy credentials, when a
\* proxy call raises for some declared URL the returned list still holds the
\* original descriptor of every declared URL, in declared order.
C29_ProxyFailureKeepsOriginals ==
    (BranchB /\ ~scfg.force /\ ProxyConfigured(scfg) /\ OriginalProxyThrew) =>
        SelectSeq(result, IsOriginal) = originalStreamDetails

-----------------------------------------------------------------------------
(* Properties of safeParseExtra *)

\* A search or genre value: letters only.
PlainValues == {<<"g">>, <<"g", "h">>}

\* A non-negative integer in decimal digits.
PlainNumbers == {<<"0">>, <<"1">>, <<"1", "2">>}

\* 'key=value&skip=number'
Paginated(key, value, number) ==
    key \o value \o <<"&", "skip", "=">> \o number

\* C30: for the extra string 'search=S&skip=N' safeParseExtra returns the
\* search S and the skip N, as it returns the genre G and the skip N for
\* 'genre=G&skip=N'; and for every extra string it returns an object (it
\* never raises).
C30_SearchPaginationParsed ==
    epc = "done" =>
        /\ eresult.kind = "object"
        /\ \A value \in PlainValues, number \in PlainNumbers :
              /\ einput = Paginated(SearchKey, value, number) =>
                    /\ eresult.search = value
                    /\ eresult.skip = DecimalValue(number)
                    /\ "skip" \in eresult.keys
              /\ einput = Paginated(GenreKey, value, number) =>
                    /\ eresult.genre = value
                    /\ eresult.skip = DecimalValue(number)

=============================================================================
